---- MODULE Spec2Model ----
(***************************************************************************)
(* Model of bioptim's integration layer (bioptim/dynamics/integrator.py):  *)
(* the Integrator class hierarchy (Integrator, RK, RK4, RK8, IRK), the     *)
(* construction of the CasADi function and its numerical evaluation.       *)
(*                                                                         *)
(* Numbers.  A number is a pair <<n, d>>: the rational n/d in lowest terms *)
(* with d > 0, or NaN == <<0, 0>>, the result of 0/0.  The arithmetic of   *)
(* the state (next_x, the quaternion normalisation, the collocation) is    *)
(* carried out exactly.  The arithmetic of get_u is carried out in binary  *)
(* floating point with MantissaBits significant bits, rounding to nearest, *)
(* ties to even, as IEEE-754 does with 53 bits.                            *)
(*                                                                         *)
(* Matrices.  A CasADi matrix is the sequence of its columns, a column the *)
(* sequence of its entries: states is <<column>>, x[:, i] is <<x[i + 1]>>. *)
(*                                                                         *)
(* Exceptions.  An operation that can raise returns a record: Ok(v) or     *)
(* Raise(e), and its callers propagate Raise(e) unchanged.                 *)
(***************************************************************************)
EXTENDS Integers, Sequences, FiniteSets, TLC

\* ---------------------------------------------------------------- bounds
MaxSteps == 3        \* largest number_of_finite_elements drawn
MaxDegree == 2       \* largest irk_polynomial_interpolation_degree drawn
MantissaBits == 3    \* significant bits of the floating-point format of get_u

\* ------------------------------------------------------- exact arithmetic
Abs(i) == IF i < 0 THEN -i ELSE i

RECURSIVE Gcd(_, _)
Gcd(a, b) == IF b = 0 THEN a ELSE Gcd(b, a % b)

RECURSIVE Pow2(_)
Pow2(e) == IF e = 0 THEN 1 ELSE 2 * Pow2(e - 1)

NaN == <<0, 0>>   \* the result of 0/0
Sym == <<1, 0>>   \* a symbolic expression (MX/SX), or a real the model leaves unevaluated
IsNaN(a) == a = NaN
IsSym(a) == a = Sym
Finite(a) == a[2] # 0
\* the result of an operation one of whose operands is not finite
Special(a, b) == IF IsSym(a) \/ IsSym(b) THEN Sym ELSE NaN

\* n/d in lowest terms, d # 0; g is the greatest common divisor of n and d
Reduced(n, d, g) == IF d < 0 THEN <<-(n \div g), -(d \div g)>> ELSE <<n \div g, d \div g>>
Rat(n, d) == Reduced(n, d, Gcd(Abs(n), Abs(d)))

Num(n) == <<n, 1>>
Zero == Num(0)
One == Num(1)

RNeg(a) == IF ~Finite(a) THEN a ELSE <<-a[1], a[2]>>
\* a + b over the least common denominator; g divides both denominators
Sum(a, b, g) == Rat(a[1] * (b[2] \div g) + b[1] * (a[2] \div g), (a[2] \div g) * b[2])
RAdd(a, b) ==
    IF ~Finite(a) \/ ~Finite(b) THEN Special(a, b) ELSE Sum(a, b, Gcd(a[2], b[2]))
RSub(a, b) == RAdd(a, RNeg(b))
\* a * b with the common factors g1 of a[1], b[2] and g2 of b[1], a[2] cancelled
Product(a, b, g1, g2) == <<(a[1] \div g1) * (b[1] \div g2), (a[2] \div g2) * (b[2] \div g1)>>
RMul(a, b) ==
    IF ~Finite(a) \/ ~Finite(b) THEN Special(a, b)
    ELSE Product(a, b, Gcd(Abs(a[1]), b[2]), Gcd(Abs(b[1]), a[2]))
\* a / b as IEEE-754 divides: 0/0 is NaN.  A nonzero a is never divided by 0
\* here: the only divisors are nonzero constants and norm_fro, which is 0 only
\* when every entry of the quaternion is.
RDiv(a, b) ==
    IF ~Finite(a) \/ ~Finite(b) THEN Special(a, b)
    ELSE IF b[1] = 0 THEN NaN
    ELSE RMul(a, IF b[1] < 0 THEN <<-b[2], -b[1]>> ELSE <<b[2], b[1]>>)
RLt(a, b) == a[1] * b[2] < b[1] * a[2]
RLe(a, b) == a[1] * b[2] <= b[1] * a[2]
RAbs(a) == <<Abs(a[1]), a[2]>>

\* the integer part of the square root of n >= 0, by Newton's iteration from x
RECURSIVE Newton(_, _)
Newton(n, x) == IF (x + n \div x) \div 2 >= x THEN x ELSE Newton(n, (x + n \div x) \div 2)
ISqrt(n) == IF n = 0 THEN 0 ELSE Newton(n, n)
IsSquare(n) == ISqrt(n) * ISqrt(n) = n
\* the square root of a >= 0: a rational one is evaluated, an irrational one is not
RSqrt(a) ==
    IF ~Finite(a) THEN a
    ELSE IF IsSquare(a[1]) /\ IsSquare(a[2]) THEN <<ISqrt(a[1]), ISqrt(a[2])>>
    ELSE Sym

\* -------------------------------------------------- floating-point rounding
Pow2R(e) == IF e >= 0 THEN Num(Pow2(e)) ELSE <<1, Pow2(-e)>>

\* the binary exponent k of a > 0: lo * 2^k <= a < 2 * lo * 2^k, searched from k
RECURSIVE Exponent(_, _, _)
Exponent(a, lo, k) ==
    IF RLt(a, RMul(Num(lo), Pow2R(k))) THEN Exponent(a, lo, k - 1)
    ELSE IF RLe(RMul(Num(2 * lo), Pow2R(k)), a) THEN Exponent(a, lo, k + 1)
    ELSE k

\* the integer nearest to m + twice / (2 * den), ties to the even one
Nearest(m, twice, den) ==
    IF twice > den \/ (twice = den /\ m % 2 = 1) THEN m + 1 ELSE m
Rint(s) == Num(Nearest(s[1] \div s[2], 2 * (s[1] % s[2]), s[2]))

\* a rounded to a multiple of 2^e
RoundAt(a, e) == RMul(Rint(RDiv(a, Pow2R(e))), Pow2R(e))

\* a rounded to MantissaBits significant bits, to nearest, ties to even
Fl(a) ==
    IF ~Finite(a) \/ a[1] = 0 THEN a
    ELSE RoundAt(a, Exponent(RAbs(a), Pow2(MantissaBits - 1), 0))

FAdd(a, b) == Fl(RAdd(a, b))
FSub(a, b) == Fl(RSub(a, b))
FMul(a, b) == Fl(RMul(a, b))


\* ------------------------------------------------------ columns and matrices
\* A function constructor is evaluated into the tuple of its values.
Tuple(s) == s \o <<>>

VAdd(a, b) == Tuple([i \in 1..Len(a) |-> RAdd(a[i], b[i])])
VSub(a, b) == Tuple([i \in 1..Len(a) |-> RSub(a[i], b[i])])
VScale(r, a) == Tuple([i \in 1..Len(a) |-> RMul(r, a[i])])
VMul(a, b) == Tuple([i \in 1..Len(a) |-> RMul(a[i], b[i])])
\* cx.sym(name, n, 1) and cx.zeros(n, 1)
SymColumn(n) == Tuple([i \in 1..n |-> Sym])
ZeroColumn(n) == Tuple([i \in 1..n |-> Zero])

RECURSIVE SumSeq(_)
SumSeq(s) == IF s = <<>> THEN Zero ELSE RAdd(s[1], SumSeq(Tail(s)))

\* ------------------------------------------------------------- exceptions
NoError == [type |-> "none", msg |-> ""]
Ok(v) == [raised |-> NoError, value |-> v]
Raise(e) == [raised |-> e, value |-> <<>>]
Raised(r) == r.raised # NoError
\* Python's hierarchy: NotImplementedError is a subclass of RuntimeError
IsRuntimeError(e) == e.type \in {"RuntimeError", "NotImplementedError"}

\* ------------------------------------------------ the biorbd model (ode_opt)
\* A model is the sequence of its segments; the generalized coordinates q hold
\* nbDof entries followed by the real part of each quaternion, the state is
\* q followed by the nbDof generalized velocities.
nbSegment(model) == Len(model)
nbDof(model) == SumSeq(Tuple([j \in 1..Len(model) |-> Num(model[j].nbDof)]))[1]
nbQuat(model) == Cardinality({j \in 1..Len(model) : model[j].isRotationAQuaternion})
nbQ(model) == nbDof(model) + nbQuat(model)
nx(model) == nbQ(model) + nbDof(model)

\* ------------------------------------------------------ Integrator.get_u
\* Variant: the two columns exchanged in the interpolation.
Integrator_get_u_swapped(self, u, dt_norm) ==
    IF self.control_type = "CONSTANT"
    THEN Ok(u)
    ELSE IF self.control_type = "LINEAR_CONTINUOUS"
    THEN Ok(<<Tuple([i \in 1..Len(u[1]) |->
                       FAdd(u[2][i], FMul(FSub(u[1][i], u[2][i]), dt_norm))])>>)
    ELSE Raise([type |-> "RuntimeError", msg |-> "ControlType not implemented yet"])

\* Variant: any other control type taken as CONSTANT instead of refused.
Integrator_get_u_lenient(self, u, dt_norm) ==
    IF self.control_type = "LINEAR_CONTINUOUS"
    THEN Ok(<<Tuple([i \in 1..Len(u[1]) |->
                       FAdd(u[1][i], FMul(FSub(u[2][i], u[1][i]), dt_norm))])>>)
    ELSE Ok(u)

Integrator_get_u(self, u, dt_norm) ==
    IF self.control_type = "CONSTANT"
    THEN Ok(u)
    ELSE IF self.control_type = "LINEAR_CONTINUOUS"
    THEN Ok(<<Tuple([i \in 1..Len(u[1]) |->
                       FAdd(u[1][i], FMul(FSub(u[2][i], u[1][i]), dt_norm))])>>)
    ELSE Raise([type |-> "RuntimeError", msg |-> "ControlType not implemented yet"])

\* ------------------------------------------------------------ IRK.get_u
\* Variant: no override, the method of Integrator inherited.
IRK_get_u_inherited(self, u, dt_norm) == Integrator_get_u(self, u, dt_norm)

IRK_get_u(self, u, dt_norm) ==
    IF self.control_type = "CONSTANT"
    THEN Integrator_get_u(self, u, dt_norm)
    ELSE Raise([type |-> "NotImplementedError",
                msg |-> "ControlType not implemented yet with IRK"])

\* self.get_u: the method of the instance's class
get_u(self, u, dt_norm) ==
    IF self.cls = "IRK" THEN IRK_get_u(self, u, dt_norm)
    ELSE Integrator_get_u(self, u, dt_norm)

\* --------------------------------------------- the dynamics, ode["ode"]
\* self.fun(x, u, p)[:, self.idx]: the derivative of the state x under the
\* control u (the column get_u returns) and the scaled parameters p.
\*   "zero"     dx/dt = 0
\*   "scale"    dx/dt = p[0] * x
\*   "control"  dx/dt = u[0] in every row
\*   "chain"    dx[0]/dt = 0, dx[i]/dt = p[0] * x[i - 1]
fun(self, x, u, p) ==
    CASE self.fun = "zero" -> <<Tuple([i \in 1..Len(x) |-> Zero])>>
      [] self.fun = "scale" -> <<Tuple([i \in 1..Len(x) |-> RMul(p[1][1], x[i])])>>
      [] self.fun = "control" -> <<Tuple([i \in 1..Len(x) |-> u[1][1]])>>
      [] self.fun = "chain" ->
           <<Tuple([i \in 1..Len(x) |-> IF i = 1 THEN Zero ELSE RMul(p[1][1], x[i - 1])])>>

f(self, x, u, p) == fun(self, x, u, p)[self.idx + 1]

\* ------------------------------------------------------------ RK.next_x
RK_next_x(self, h, t, x_prev, u, p) ==
    Raise([type |-> "RuntimeError", msg |-> "RK is abstract, please select a specific RK"])

\* ----------------------------------------------------------- RK4.next_x
\* Variant: the control of the start of the sub-step used by every stage.
RK4_k_control_at_t(self, h, t, x_prev, u, p, k) ==
    CASE Len(k) = 0 -> f(self, x_prev, get_u(self, u, t).value, p)
      [] Len(k) \in {1, 2} ->
           f(self, VAdd(x_prev, VScale(RDiv(h, Num(2)), k[Len(k)])), get_u(self, u, t).value, p)
      [] Len(k) = 3 ->
           f(self, VAdd(x_prev, VScale(h, k[3])), get_u(self, u, t).value, p)

\* Variant: the fraction taken of the time step h, in seconds.
stage_time_of_h(self, t, fraction) == RAdd(t, RMul(self.h, fraction))

\* t + self.h_norm * fraction: the normalized time a stage samples the control at
stage_time(self, t, fraction) == RAdd(t, RMul(self.h_norm, fraction))

\* lines 311-314: the fraction of the sub-step at which the stage j samples
RK4_fraction(j) == CASE j = 1 -> Zero [] j \in {2, 3} -> Rat(1, 2) [] j = 4 -> One

\* lines 311-314: the state the stage k_(j+1) evaluates the dynamics at
RK4_stage_x(h, x_prev, k) ==
    CASE Len(k) = 0 -> x_prev
      [] Len(k) \in {1, 2} -> VAdd(x_prev, VScale(RDiv(h, Num(2)), k[Len(k)]))
      [] Len(k) = 3 -> VAdd(x_prev, VScale(h, k[3]))

\* the stage k_(j+1) of lines 311-314, from the stages k = <<k1, ..., kj>>
RK4_k(self, h, t, x_prev, u, p, k) ==
    f(self, RK4_stage_x(h, x_prev, k),
      get_u(self, u, stage_time(self, t, RK4_fraction(Len(k) + 1))).value, p)

\* lines 311-314 in sequence: the stages k1..k4 from those computed so far
RECURSIVE RK4_stages(_, _, _, _, _, _, _)
RK4_stages(self, h, t, x_prev, u, p, k) ==
    IF Len(k) = 4 THEN k
    ELSE RK4_stages(self, h, t, x_prev, u, p, Append(k, RK4_k(self, h, t, x_prev, u, p, k)))

\* Variant: the increment returned without x_prev.
RK4_return_increment(h, x_prev, k) ==
    VScale(RDiv(h, Num(6)),
           VAdd(VAdd(VAdd(k[1], VScale(Num(2), k[2])), VScale(Num(2), k[3])), k[4]))

\* the return of line 315
RK4_return(h, x_prev, k) ==
    VAdd(x_prev,
         VScale(RDiv(h, Num(6)),
                VAdd(VAdd(VAdd(k[1], VScale(Num(2), k[2])), VScale(Num(2), k[3])), k[4])))

\* get_u raises on control_type alone: the first call raises or none does.
RK4_next_x(self, h, t, x_prev, u, p) ==
    IF Raised(get_u(self, u, t)) THEN get_u(self, u, t)
    ELSE Ok(RK4_return(h, x_prev, RK4_stages(self, h, t, x_prev, u, p, <<>>)))

\* ----------------------------------------------------------- RK8.next_x
\* sum of c[i] * k[i] over the stages
RECURSIVE Comb(_, _)
Comb(c, k) ==
    IF Len(c) = 1 THEN VScale(Num(c[1]), k[1])
    ELSE VAdd(VScale(Num(c[1]), k[1]), Comb(Tail(c), Tail(k)))

\* x_prev + (h / den) * (c[1] * k[1] + ... )
RK8_x(h, x_prev, den, c, k) == VAdd(x_prev, VScale(RDiv(h, Num(den)), Comb(c, k)))

\* lines 363-391: the fraction of the sub-step at which the stage j samples
RK8_fraction(j) ==
    CASE j = 1 -> Zero
      [] j = 2 -> Rat(4, 27)
      [] j = 3 -> Rat(2, 9)
      [] j = 4 -> Rat(1, 3)
      [] j = 5 -> Rat(1, 2)
      [] j = 6 -> Rat(2, 3)
      [] j = 7 -> Rat(1, 6)
      [] j = 8 -> One
      [] j = 9 -> Rat(5, 6)
      [] j = 10 -> One

\* lines 362-391: the state the stage k_(j+1) evaluates the dynamics at
RK8_stage_x(h, x_prev, k) ==
    CASE Len(k) = 0 -> x_prev
      [] Len(k) = 1 -> VAdd(x_prev, VScale(RDiv(RMul(h, Num(4)), Num(27)), k[1]))
      [] Len(k) = 2 -> RK8_x(h, x_prev, 18, <<1, 3>>, <<k[1], k[2]>>)
      [] Len(k) = 3 -> RK8_x(h, x_prev, 12, <<1, 3>>, <<k[1], k[3]>>)
      [] Len(k) = 4 -> RK8_x(h, x_prev, 8, <<1, 3>>, <<k[1], k[4]>>)
      [] Len(k) = 5 -> RK8_x(h, x_prev, 54, <<13, -27, 42, 8>>, <<k[1], k[3], k[4], k[5]>>)
      [] Len(k) = 6 -> RK8_x(h, x_prev, 4320, <<389, -54, 966, -824, 243>>,
                             <<k[1], k[3], k[4], k[5], k[6]>>)
      [] Len(k) = 7 -> RK8_x(h, x_prev, 20, <<-234, 81, -1164, 656, -122, 800>>,
                             <<k[1], k[3], k[4], k[5], k[6], k[7]>>)
      [] Len(k) = 8 -> RK8_x(h, x_prev, 288, <<-127, 18, -678, 456, -9, 576, 4>>,
                             <<k[1], k[3], k[4], k[5], k[6], k[7], k[8]>>)
      [] Len(k) = 9 -> RK8_x(h, x_prev, 820, <<1481, -81, 7104, -3376, 72, -5040, -60, 720>>,
                             <<k[1], k[3], k[4], k[5], k[6], k[7], k[8], k[9]>>)

\* the stage k_(j+1) of lines 362-391, from the stages k = <<k1, ..., kj>>
RK8_k(self, h, t, x_prev, u, p, k) ==
    f(self, RK8_stage_x(h, x_prev, k),
      get_u(self, u, stage_time(self, t, RK8_fraction(Len(k) + 1))).value, p)

\* lines 360-391 in sequence: the stages k1..k10 from those computed so far
RECURSIVE RK8_stages(_, _, _, _, _, _, _)
RK8_stages(self, h, t, x_prev, u, p, k) ==
    IF Len(k) = 10 THEN k
    ELSE RK8_stages(self, h, t, x_prev, u, p, Append(k, RK8_k(self, h, t, x_prev, u, p, k)))

\* Variant: the stage 8 combined in place of the stage 9.
RK8_return_stage_8(h, x_prev, k) ==
    RK8_x(h, x_prev, 840, <<41, 27, 272, 27, 216, 216, 41>>,
          <<k[1], k[4], k[5], k[6], k[7], k[8], k[10]>>)

\* the return of line 393
RK8_return(h, x_prev, k) ==
    RK8_x(h, x_prev, 840, <<41, 27, 272, 27, 216, 216, 41>>,
          <<k[1], k[4], k[5], k[6], k[7], k[9], k[10]>>)

\* get_u raises on control_type alone: the first call raises or none does.
RK8_next_x(self, h, t, x_prev, u, p) ==
    IF Raised(get_u(self, u, t)) THEN get_u(self, u, t)
    ELSE Ok(RK8_return(h, x_prev, RK8_stages(self, h, t, x_prev, u, p, <<>>)))

\* self.next_x: the method of the instance's class (RK8 overrides RK4's)
next_x(self, h, t, x_prev, u, p) ==
    CASE self.cls = "RK" -> RK_next_x(self, h, t, x_prev, u, p)
      [] self.cls = "RK4" -> RK4_next_x(self, h, t, x_prev, u, p)
      [] self.cls = "RK8" -> RK8_next_x(self, h, t, x_prev, u, p)

\* the values k1, k2, ... the dynamics returned during self.next_x, in the order
\* of the evaluations; none when the first get_u raises or the class has no stage
next_x_stages(self, h, t, x_prev, u, p) ==
    IF self.cls = "RK" \/ Raised(get_u(self, u, t)) THEN <<>>
    ELSE IF self.cls = "RK4" THEN RK4_stages(self, h, t, x_prev, u, p, <<>>)
    ELSE RK8_stages(self, h, t, x_prev, u, p, <<>>)

\* the arguments of the evaluations of self.fun during self.next_x, in order:
\* the state, and the normalized time the control is sampled at
next_x_calls(self, h, t, x_prev, k) ==
    Tuple([j \in 1..Len(k) |->
             IF self.cls = "RK4"
             THEN [x |-> RK4_stage_x(h, x_prev, SubSeq(k, 1, j - 1)),
                   t |-> stage_time(self, t, RK4_fraction(j))]
             ELSE [x |-> RK8_stage_x(h, x_prev, SubSeq(k, 1, j - 1)),
                   t |-> stage_time(self, t, RK8_fraction(j))]])

\* ------------------------------------------------------- Integrator.dxdt
Integrator_dxdt(self, h, states, controls, params) ==
    Raise([type |-> "RuntimeError",
           msg |-> "Integrator is abstract, please specify a proper one"])

\* --------------------------------------------------------------- RK.dxdt
\* quat_idx of lines 242-249, with the source's 0-based indices
RECURSIVE quat_idx_from(_, _, _, _, _)
quat_idx_from(model, j, n_dof, quat_idx, quat_number) ==
    IF j > nbSegment(model) THEN quat_idx
    ELSE IF model[j].isRotationAQuaternion
    THEN quat_idx_from(model, j + 1, n_dof + model[j].nbDof,
                       Append(quat_idx,
                              <<n_dof, n_dof + 1, n_dof + 2, nbDof(model) + quat_number>>),
                       quat_number + 1)
    ELSE quat_idx_from(model, j + 1, n_dof + model[j].nbDof, quat_idx, quat_number)

QuatIdx(model) == quat_idx_from(model, 1, 0, <<>>, 0)

norm_fro(v) == RSqrt(SumSeq(Tuple([i \in 1..Len(v) |-> RMul(v[i], v[i])])))

VDiv(a, r) == Tuple([i \in 1..Len(a) |-> RDiv(a[i], r)])

\* Variant: the quaternion divided by the square of its norm.
Normalized_by_square(quaternion) ==
    VDiv(quaternion, RMul(norm_fro(quaternion), norm_fro(quaternion)))

\* line 258 on the quaternion (w, x, y, z)
Normalized(quaternion) == VDiv(quaternion, norm_fro(quaternion))

\* lines 259-260: column xi with quaternion written at the indices q
SetQuaternion(xi, q, quaternion) ==
    Tuple([r \in 1..Len(xi) |->
             IF r - 1 = q[4] THEN quaternion[1]
             ELSE IF q[1] <= r - 1 /\ r - 1 < q[3] + 1 THEN quaternion[r - q[1] + 1]
             ELSE xi[r]])

\* lines 254-260 on column xi, for the quaternions j..nbQuat
RECURSIVE Renormalize(_, _, _, _)
Renormalize(model, quat_idx, xi, j) ==
    IF j > nbQuat(model) THEN xi
    ELSE Renormalize(model, quat_idx,
                     SetQuaternion(xi, quat_idx[j],
                                   Normalized(<<xi[quat_idx[j][4] + 1], xi[quat_idx[j][1] + 1],
                                                xi[quat_idx[j][2] + 1], xi[quat_idx[j][3] + 1]>>)),
                     j + 1)

\* the loop of lines 251-260 from sub-step i on; x holds columns 0..i-1
RECURSIVE SubSteps(_, _, _, _, _, _, _)
\* lines 254-261 of sub-step i and the sub-steps after it: xi is what next_x
\* did at line 253, and its exception leaves the loop
RECURSIVE SubStep(_, _, _, _, _, _, _, _)
SubStep(self, h, u, p, quat_idx, x, i, xi) ==
    IF Raised(xi) THEN xi
    ELSE SubSteps(self, h, u, p, quat_idx,
                  Append(x, Renormalize(self.model, quat_idx, xi.value, 1)), i + 1)

SubSteps(self, h, u, p, quat_idx, x, i) ==
    IF i > self.n_step THEN Ok(x)
    ELSE SubStep(self, h, u, p, quat_idx, x, i,
                 next_x(self, h, Rat(i - 1, self.n_step), x[i], u, p))

\* Variant: the trajectory reduced to its two ends, as the implicit integrator returns it.
RK_return_two_columns(x) ==
    IF Raised(x) THEN x
    ELSE Ok([xf |-> <<x.value[Len(x.value)]>>, xall |-> <<x.value[1], x.value[Len(x.value)]>>])

\* line 263: return x[:, -1], x; an exception of the loop propagates
RK_return(x) ==
    IF Raised(x) THEN x
    ELSE Ok([xf |-> <<x.value[Len(x.value)]>>, xall |-> x.value])

\* Variant: the quaternions of column 0 renormalized like those of the others.
RK_dxdt_renormalized_input(self, h, states, controls, params) ==
    RK_return(SubSteps(self, h, controls, params, QuatIdx(self.model),
                       <<Renormalize(self.model, QuatIdx(self.model), states[1], 1)>>, 1))

RK_dxdt(self, h, states, controls, params) ==
    RK_return(SubSteps(self, h, controls, params, QuatIdx(self.model), <<states[1]>>, 1))

\* -------------------------------------------------------------- IRK.dxdt
RECURSIVE ProdSeq(_)
ProdSeq(s) == IF s = <<>> THEN One ELSE RMul(s[1], ProdSeq(Tail(s)))

\* CasADi's collocation_points(degree, "legendre"): the roots of the shifted
\* Legendre polynomial of that degree, for 0 < degree < 10, an error
\* otherwise.  The root for degree 1 is 1/2; those of the higher degrees are
\* irrational and left unevaluated.
collocation_points(degree) ==
    IF degree < 1 \/ degree > 9
    THEN Raise([type |-> "RuntimeError", msg |-> "collocation_points: order not supported"])
    ELSE IF degree = 1 THEN Ok(<<Rat(1, 2)>>)
    ELSE Ok(Tuple([j \in 1..degree |-> Sym]))

\* _l of lines 485-488 for point j (0-based), evaluated at tau
Lagrange(time_points, j, tau) ==
    ProdSeq(Tuple([r \in 1..Len(time_points) |->
                     IF r - 1 = j THEN One
                     ELSE RDiv(RSub(tau, time_points[r]),
                               RSub(time_points[j + 1], time_points[r]))]))

\* tangent(_l, time_control_interval) for point j, evaluated at tau
LagrangeTangent(time_points, j, tau) ==
    SumSeq(Tuple([m \in 1..Len(time_points) |->
              IF m - 1 = j THEN Zero
              ELSE RMul(RDiv(One, RSub(time_points[j + 1], time_points[m])),
                        ProdSeq(Tuple([r \in 1..Len(time_points) |->
                                   IF r - 1 = j \/ r = m THEN One
                                   ELSE RDiv(RSub(tau, time_points[r]),
                                             RSub(time_points[j + 1], time_points[r]))])))]))

\* Variant: the basis evaluated at the last collocation point, not at 1.0.
Continuity_at_last_point(time_points) ==
    Tuple([j \in 1..Len(time_points) |->
             Lagrange(time_points, j - 1, time_points[Len(time_points)])])

\* _d[j] = lfcn(1.0) and _c[j, r] = tfcn(time_points[r]), indexed from 1
Continuity(time_points) ==
    Tuple([j \in 1..Len(time_points) |-> Lagrange(time_points, j - 1, One)])
Collocation(time_points) ==
    Tuple([j \in 1..Len(time_points) |->
             Tuple([r \in 1..Len(time_points) |->
                      LagrangeTangent(time_points, j - 1, time_points[r])])])

\* Variant: the coefficients read with their two indices exchanged.
xp_j_transposed(_c, x, degree, j) ==
    Tuple([i \in 1..Len(x[1]) |->
             SumSeq(Tuple([r \in 1..degree + 1 |-> RMul(_c[j + 1][r], x[r][i])]))])

\* lines 512-514: the derivative of the interpolating polynomial at point j
xp_j(_c, x, degree, j) ==
    Tuple([i \in 1..Len(x[1]) |->
             SumSeq(Tuple([r \in 1..degree + 1 |-> RMul(_c[r][j + 1], x[r][i])]))])

\* line 509: the normalized time the control of point j is asked at
t_norm_init(self, j) == Rat(j - 1, self.degree)

\* x_irk_points_eq of lines 507-518 from point j on: x holds x0 and the
\* interior states, eq the equations appended so far
RECURSIVE CollocationEquations(_, _, _, _, _, _, _, _)
CollocationEquations(self, h, _c, x, u, params, eq, j) ==
    IF j > self.degree THEN Ok(eq)
    ELSE IF Raised(get_u(self, u, t_norm_init(self, j)))
    THEN get_u(self, u, t_norm_init(self, j))
    ELSE CollocationEquations(self, h, _c, x, u, params,
             Append(eq, VSub(VScale(h, f(self, x[j + 1],
                                         get_u(self, u, t_norm_init(self, j)).value,
                                         params)),
                             xp_j(_c, x, self.degree, j))),
             j + 1)

\* rootfinder("ifcn", "newton", vfcn) called with an empty initial guess:
\* Newton's method from 0.  Each residual row of the dynamics drawn here is
\* affine in its own unknown alone, so the first Newton step, with the slope
\* vfcn(1) - vfcn(0), lands on the root; a zero slope divides by zero.  With
\* more than one interior point the system is coupled through irrational
\* coefficients and the solution is left unevaluated.
NewtonStep(at0, at1) ==
    Tuple([i \in 1..Len(at0) |-> RDiv(RNeg(at0[i]), RSub(at1[i], at0[i]))])

\* line 525: the residuals as a function of the interior states
vfcn(self, h, _c, x0, u, params, points_value) ==
    CollocationEquations(self, h, _c, <<x0>> \o points_value, u, params, <<>>, 1).value

Rootfinder(self, h, _c, x0, u, params, n) ==
    IF self.degree # 1 THEN Tuple([j \in 1..self.degree |-> SymColumn(n)])
    ELSE <<NewtonStep(vfcn(self, h, _c, x0, u, params, <<ZeroColumn(n)>>)[1],
                     vfcn(self, h, _c, x0, u, params, <<Tuple([i \in 1..n |-> One])>>)[1])>>

\* lines 532-535: xf[:, r] = xf[:, r - 1] + _d[r] * x[r], column -1 being the last
RECURSIVE Accumulate(_, _, _, _)
Accumulate(_d, x, xf, r) ==
    IF r > Len(x) - 1 THEN xf
    ELSE LET prev == IF r = 0 THEN Len(xf) ELSE r
         IN  Accumulate(_d, x,
                        [xf EXCEPT ![r + 1] = VAdd(xf[prev], VScale(_d[r + 1], x[r + 1]))],
                        r + 1)

\* Variant: the first column of the accumulated sum returned, not the last.
IRK_return_first_column(x0, xf) == Ok([xf |-> <<xf[1]>>, xall |-> <<x0, xf[1]>>])

\* line 537: return xf[:, -1], horzcat(x0, xf[:, -1])
IRK_return(x0, xf) == Ok([xf |-> <<xf[Len(xf)]>>, xall |-> <<x0, xf[Len(xf)]>>])

\* lines 532-535 on the solution x of the rootfinder
IRK_xf(_d, x0, x) ==
    IRK_return(x0, Accumulate(_d, x, Tuple([r \in 1..Len(x) |-> ZeroColumn(Len(x0))]), 0))

\* lines 500-537: x_irk_points_eq is what building the equations on the
\* symbols did, and its exception propagates
IRK_solve(self, h, _c, _d, x0, u, params, x_irk_points_eq) ==
    IF Raised(x_irk_points_eq) THEN x_irk_points_eq
    ELSE IRK_xf(_d, x0, <<x0>> \o Rootfinder(self, h, _c, x0, u, params, Len(x0)))

\* lines 474-498 on the time points, then the equations on the symbols
IRK_collocate(self, h, states, controls, params, time_points) ==
    IRK_solve(self, h, Collocation(time_points), Continuity(time_points), states[1],
              controls, params,
              CollocationEquations(self, h, Collocation(time_points),
                                   <<states[1]>> \o Tuple([j \in 1..self.degree |->
                                                             SymColumn(Len(states[1]))]),
                                   controls, params, <<>>, 1))

IRK_dxdt(self, h, states, controls, params) ==
    IF Raised(collocation_points(self.degree)) THEN collocation_points(self.degree)
    ELSE IRK_collocate(self, h, states, controls, params,
                       <<Zero>> \o collocation_points(self.degree).value)

\* self.dxdt: the method of the instance's class
dxdt(self, h, states, controls, params) ==
    CASE self.cls = "Integrator" -> Integrator_dxdt(self, h, states, controls, params)
      [] self.cls \in {"RK", "RK4", "RK8"} -> RK_dxdt(self, h, states, controls, params)
      [] self.cls = "IRK" -> IRK_dxdt(self, h, states, controls, params)

\* ---------------------------------------------------- Integrator.__init__
NoFunction == [name |-> "None"]

Integrator__init__(cls, ode, ode_opt) ==
    LET step_time == RSub(ode_opt.tf, ode_opt.t0)
    IN  [cls |-> cls,
         model |-> ode_opt.model,
         t_span |-> <<ode_opt.t0, ode_opt.tf>>,
         idx |-> ode_opt.idx,
         x_sym |-> ode.x,
         u_sym |-> ode.p,
         param_sym |-> ode_opt.param.cx,
         param_scaling |-> ode_opt.param.scaling,
         fun |-> ode.ode,
         control_type |-> ode_opt.control_type,
         step_time |-> step_time,
         h |-> step_time,
         function |-> NoFunction,
         n_finish_init |-> 0]      \* history: the executions of _finish_init so far

\* ------------------------------------------------- Integrator._finish_init
\* Function(name, inputs, outputs, names) compiles the graph dxdt has
\* built from the symbols; the graph holds the values dxdt read from self.
\* lines 148-154 on what dxdt did at line 151: its exception propagates
\* before self.function is assigned
Function(self, graph) ==
    IF Raised(graph) THEN graph
    ELSE Ok([self EXCEPT
               !.function = [name |-> "integrator",
                             name_in |-> <<"x0", "p", "params">>,
                             name_out |-> <<"xf", "xall">>,
                             xf |-> graph.value.xf,
                             xall |-> graph.value.xall,
                             self |-> [self EXCEPT !.function = NoFunction]],
               !.n_finish_init = @ + 1])

_finish_init(self) ==
    Function(self, dxdt(self, self.h, self.x_sym, self.u_sym,
                        <<VMul(self.param_sym[1], self.param_scaling[1])>>))

\* the compiled function evaluated on numbers
Function__call__(function, x0, p, params) ==
    dxdt(function.self, function.self.h, x0, p,
         <<VMul(params[1], function.self.param_scaling[1])>>).value

\* ----------------------------------------------------------- RK.__init__
RK__init__(cls, ode, ode_opt) ==
    LET self == Integrator__init__(cls, ode, ode_opt)
        n_step == ode_opt.number_of_finite_elements
    IN  IF n_step = 0 THEN Raise([type |-> "ZeroDivisionError", msg |-> "division by zero"])
        ELSE Ok([self EXCEPT !.h = RMul(self.step_time, Rat(1, n_step))]
                @@ [n_step |-> n_step, h_norm |-> Rat(1, n_step)])

\* ---------------------------------------------------------- RK4.__init__
\* self._finish_init() after super().__init__: an exception of the
\* base constructor propagates
then_finish_init(self) == IF Raised(self) THEN self ELSE _finish_init(self.value)

RK4__init__(cls, ode, ode_opt) == then_finish_init(RK__init__(cls, ode, ode_opt))

\* ---------------------------------------------------------- RK8.__init__
RK8__init__(cls, ode, ode_opt) == then_finish_init(RK4__init__(cls, ode, ode_opt))

\* ---------------------------------------------------------- IRK.__init__
IRK__init__(cls, ode, ode_opt) ==
    LET self == Integrator__init__(cls, ode, ode_opt)
                @@ [degree |-> ode_opt.irk_polynomial_interpolation_degree]
    IN  _finish_init(self)

\* cls(ode, ode_opt)
New(cls, ode, ode_opt) ==
    CASE cls = "Integrator" -> Ok(Integrator__init__(cls, ode, ode_opt))
      [] cls = "RK" -> RK__init__(cls, ode, ode_opt)
      [] cls = "RK4" -> RK4__init__(cls, ode, ode_opt)
      [] cls = "RK8" -> RK8__init__(cls, ode, ode_opt)
      [] cls = "IRK" -> IRK__init__(cls, ode, ode_opt)

\* ---------------------------------------------------- Integrator.__call__
\* Variant: the function built lazily, again at every call.
self_rebuilt(self) ==
    IF self.function = NoFunction THEN self ELSE _finish_init(self).value

\* the attributes of the instance after __call__ (lines 81-86) or map (lines
\* 88-96): the methods read self.function and assign nothing
self_after(self) == self

Integrator__call__(self, x0, p, params) ==
    IF self.function = NoFunction
    THEN Raise([type |-> "TypeError", msg |-> "'NoneType' object is not callable"])
    ELSE Ok(Function__call__(self.function, x0, p, params))

\* ------------------------------------------------------------------ inputs
Classes == {"Integrator", "RK", "RK4", "RK8", "IRK"}
ControlTypes == {"NONE", "CONSTANT", "LINEAR_CONTINUOUS"}

Segment(n, quaternion) == [nbDof |-> n, isRotationAQuaternion |-> quaternion]
NoQuatModel == <<Segment(1, FALSE)>>
MixedModel == <<Segment(1, FALSE), Segment(3, TRUE)>>
TwoQuatModel == <<Segment(3, TRUE), Segment(3, TRUE)>>
ChainModel == <<Segment(3, FALSE)>>
Models == {NoQuatModel, MixedModel, TwoQuatModel, ChainModel}

Column(ints) == Tuple([i \in 1..Len(ints) |-> Num(ints[i])])

\* States drawn for each model, q then qdot.  Each quaternion has an integer
\* norm (5, 1 or 0), which the dynamics drawn for these models keep rational.
States(model) ==
    CASE model = NoQuatModel -> {Column(<<1, 2>>), Column(<<-3, 0>>)}
      [] model = MixedModel ->
           {Column(<<1, 2, 2, 4, 1, 1, 0, -1, 2>>),     \* (w, x, y, z) = (1, 2, 2, 4)
            Column(<<3, 0, 0, 0, 1, 0, 1, 0, 0>>),      \* (1, 0, 0, 0)
            Column(<<1, 0, 0, 0, 0, 1, 1, 1, 1>>)}      \* (0, 0, 0, 0)
      [] model = TwoQuatModel ->
           {Column(<<2, 2, 4, 0, 3, 0, 1, 4, 1, 0, 0, 0, 0, -1>>),  \* (1,2,2,4), (4,0,3,0)
            Column(<<3, 4, 0, 0, 0, 0, 0, 0, 0, 1, 0, 0, 2, 0>>)}   \* (0,3,4,0), (0,0,0,0)
      [] model = ChainModel -> {Column(<<1, 0, 0, 0, 0, 0>>)}

\* Control matrices of one control: one column (CONSTANT) or two.  Every entry
\* is a number of the floating-point format.  3 - 1 is one too, 1 - 10 is not.
NCol(control_type) == IF control_type = "LINEAR_CONTINUOUS" THEN 2 ELSE 1
Controls(control_type) ==
    IF NCol(control_type) = 1 THEN {<<<<Num(1)>>>>, <<<<Num(10)>>>>}
    ELSE {<<<<Num(1)>>, <<Num(3)>>>>, <<<<Num(10)>>, <<Num(1)>>>>}

\* The normalized times get_u is called with; a control type that does not
\* read the time is drawn with one.
Times(control_type) ==
    IF control_type = "LINEAR_CONTINUOUS" THEN {Zero, Rat(1, 2), One} ELSE {Rat(1, 2)}

\* The arguments of an evaluation.  An argument the dynamics does not read is
\* drawn from one value.  The parameter is such that h * (params * scaling)
\* is -1 or -2, which keeps the powers of the stability factor small.
CallStates(self) == States(self.model)
CallControls(self) ==
    IF self.fun = "control" THEN Controls(self.control_type)
    ELSE {Tuple([c \in 1..NCol(self.control_type) |-> <<Num(c)>>])}
CallParams(self) ==
    {<<<<RDiv(Num(z), RMul(self.h, self.param_scaling[1][1]))>>>> :
        z \in IF self.fun = "scale" THEN {-1, -2} ELSE {-1}}

Odes == {"zero", "scale", "control", "chain"}
TSpans == {<<Num(1), Num(3)>>}

\* The dynamics a class and a model are drawn with: those whose quaternion
\* norms are rational, and whose numbers stay within TLC's 32-bit integers.
\* The abstract classes never evaluate the dynamics.
Drawn(cls, model, ode_fun) ==
    /\ cls \in {"Integrator", "RK"} => model = NoQuatModel /\ ode_fun = "zero"
    /\ cls = "RK4" /\ nbQuat(model) > 0 => ode_fun # "control"
    /\ cls = "RK8" => ode_fun # "scale"
    /\ cls = "RK8" /\ nbQuat(model) > 0 => ode_fun = "zero"
    /\ cls = "IRK" => model # TwoQuatModel
    /\ model = ChainModel <=> ode_fun = "chain"
    /\ ode_fun = "chain" => cls \in {"RK4", "RK8"}

\* The numbers of sub-steps a class is drawn with on a dynamics: the ten stages
\* of RK8 on the chain stay within 32-bit integers over one sub-step.
DrawnSteps(cls, ode_fun, n_step) == cls = "RK8" /\ ode_fun = "chain" => n_step <= 1

Ode(model, control_type, ode_fun) ==
    [x |-> <<SymColumn(nx(model))>>,
     p |-> Tuple([c \in 1..NCol(control_type) |-> SymColumn(1)]),
     ode |-> ode_fun]

OdeOpt(model, t_span, control_type, n_step, degree) ==
    [model |-> model, t0 |-> t_span[1], tf |-> t_span[2], idx |-> 0,
     param |-> [cx |-> <<SymColumn(1)>>, scaling |-> <<<<Num(2)>>>>],
     control_type |-> control_type,
     number_of_finite_elements |-> n_step,
     irk_polynomial_interpolation_degree |-> degree]

\* ------------------------------------------------------------------- state
VARIABLES
    integrator,   \* the instance, NoInstance before and after a failed construction
    ret,          \* the last operation: its arguments, what it raised or returned
    mapped,       \* the invocations of a mapped evaluation in flight
    ocp           \* the optimal control program, NoOcp before its construction

vars == <<integrator, ret, mapped, ocp>>

NoInstance == [cls |-> "None"]
NoOcp == [nlp |-> <<>>]

Init ==
    /\ integrator = NoInstance
    /\ ret = [op |-> "none"]
    /\ mapped = <<>>
    /\ ocp = NoOcp

\* integrator = cls(ode, ode_opt)
Construct ==
    /\ ret.op = "none"
    /\ \E cls \in Classes, model \in Models, t_span \in TSpans,
          control_type \in ControlTypes, ode_fun \in Odes,
          n_step \in 0..MaxSteps, degree \in 0..MaxDegree :
          /\ Drawn(cls, model, ode_fun)
          /\ DrawnSteps(cls, ode_fun, n_step)
          /\ cls \notin {"RK", "RK4", "RK8"} => n_step = 1      \* not read
          /\ cls # "IRK" => degree = 1                          \* not read
          /\ \E ode \in {Ode(model, control_type, ode_fun)},
                ode_opt \in {OdeOpt(model, t_span, control_type, n_step, degree)} :
                \E new \in {New(cls, ode, ode_opt)} :
                   /\ integrator' = IF Raised(new) THEN NoInstance ELSE new.value
                   /\ ret' = [op |-> "__init__", cls |-> cls, ode_opt |-> ode_opt,
                              raised |-> new.raised]
    /\ UNCHANGED <<mapped, ocp>>

\* integrator(x0=x0, p=p, params=params)
Call ==
    /\ integrator # NoInstance
    /\ mapped = <<>>              \* the caller is not inside a mapped evaluation
    /\ \E x0 \in CallStates(integrator), p \in CallControls(integrator),
          params \in CallParams(integrator) :
          \E out \in {Integrator__call__(integrator, <<x0>>, p, params)} :
              ret' = [op |-> "__call__", x0 |-> <<x0>>, p |-> p, params |-> params,
                      raised |-> out.raised, value |-> out.value]
    /\ integrator' = self_after(integrator)
    /\ UNCHANGED <<mapped, ocp>>

\* integrator.get_u(u, dt_norm)
GetU ==
    /\ integrator # NoInstance
    /\ \E u \in Controls(integrator.control_type),
          dt_norm \in Times(integrator.control_type) :
          \E out \in {get_u(integrator, u, dt_norm)} :
              ret' = [op |-> "get_u", u |-> u, dt_norm |-> dt_norm,
                      raised |-> out.raised, value |-> out.value]
    /\ UNCHANGED <<integrator, mapped, ocp>>

\* integrator.dxdt(integrator.h, states, controls, params)
Dxdt ==
    /\ integrator # NoInstance
    /\ \E x0 \in CallStates(integrator), p \in CallControls(integrator),
          params \in CallParams(integrator) :
          \E out \in {dxdt(integrator, integrator.h, <<x0>>, p,
                          <<VMul(params[1], integrator.param_scaling[1])>>)} :
              ret' = [op |-> "dxdt", x0 |-> <<x0>>, p |-> p, params |-> params,
                      raised |-> out.raised, value |-> out.value]
    /\ UNCHANGED <<integrator, mapped, ocp>>

\* integrator.next_x(integrator.h, t, x_prev, u, p) at the start t of a
\* sub-step, as RK.dxdt calls it
NextX ==
    /\ integrator # NoInstance
    /\ integrator.cls \in {"RK", "RK4", "RK8"}
    /\ \E x0 \in CallStates(integrator), u \in CallControls(integrator),
          params \in CallParams(integrator), i \in 1..integrator.n_step :
          \E t \in {Rat(i - 1, integrator.n_step)},
             p \in {<<VMul(params[1], integrator.param_scaling[1])>>} :
             \E out \in {next_x(integrator, integrator.h, t, x0, u, p)} :
                ret' = [op |-> "next_x", h |-> integrator.h, t |-> t, x_prev |-> x0,
                        u |-> u, p |-> p, raised |-> out.raised, value |-> out.value,
                        k |-> next_x_stages(integrator, integrator.h, t, x0, u, p),
                        calls |-> next_x_calls(integrator, integrator.h, t, x0,
                                     next_x_stages(integrator, integrator.h, t, x0, u, p))]
    /\ UNCHANGED <<integrator, mapped, ocp>>

Next == Construct \/ Call \/ GetU \/ Dxdt \/ NextX

Spec == Init /\ [][Next]_vars

\* ----------------------------------------------------------- Integrator.map
\* integrator.map(n, "thread", n_threads)(x0, p, params): the compiled function
\* evaluated on the n columns of arguments, each by a thread of its own.  An
\* invocation evaluates the graph dxdt built: for RK4 and RK8 the sub-steps of
\* lines 251-261 one after the other on its trajectory x, for IRK the
\* rootfinder and the sum of lines 528-535.

\* the number of columns a mapped evaluation is drawn with
MapColumns == 2

\* Variant: one trajectory for all the invocations, as if x were kept on self.
Trajectory_of_self(invocations, i) == invocations[1].x

\* line 238: x is a matrix the evaluation allocates for itself
Trajectory(invocations, i) == invocations[i].x

\* the invocation of the compiled function on the arguments a
Invocation(a) ==
    [x0 |-> a.x0, p |-> a.p, params |-> a.params,
     x |-> <<a.x0[1]>>,             \* line 240: x[:, 0] = states
     done |-> FALSE, value |-> <<>>]

\* Variant: the column of a sub-step stored as next_x returned it.
Advance_unnormalized(self, invocations, i, x) ==
    IF self.cls = "IRK"
    THEN [invocations[i] EXCEPT
            !.done = TRUE,
            !.value = IRK_dxdt(self, self.h, invocations[i].x0, invocations[i].p,
                               <<VMul(invocations[i].params[1],
                                      self.param_scaling[1])>>).value]
    ELSE IF Len(x) <= self.n_step
    THEN [invocations[i] EXCEPT
            !.x = Append(x, next_x(self, self.h, Rat(Len(x) - 1, self.n_step),
                                   x[Len(x)], invocations[i].p,
                                   <<VMul(invocations[i].params[1],
                                          self.param_scaling[1])>>).value)]
    ELSE [invocations[i] EXCEPT !.done = TRUE, !.value = RK_return(Ok(x)).value]

\* one step of invocation i on the instance the function was compiled from
Advance(self, invocations, i, x) ==
    IF self.cls = "IRK"
    THEN [invocations[i] EXCEPT
            !.done = TRUE,
            !.value = IRK_dxdt(self, self.h, invocations[i].x0, invocations[i].p,
                               <<VMul(invocations[i].params[1],
                                      self.param_scaling[1])>>).value]
    ELSE IF Len(x) <= self.n_step
    THEN [invocations[i] EXCEPT
            !.x = Append(x, Renormalize(self.model, QuatIdx(self.model),
                                        next_x(self, self.h, Rat(Len(x) - 1, self.n_step),
                                               x[Len(x)], invocations[i].p,
                                               <<VMul(invocations[i].params[1],
                                                      self.param_scaling[1])>>).value,
                                        1))]
    ELSE [invocations[i] EXCEPT !.done = TRUE, !.value = RK_return(Ok(x)).value]

\* The arguments a mapped evaluation is drawn with: a state and a control
\* different in every column, and the parameters of the program in all of them.
Arguments(self, params) ==
    {[x0 |-> <<x0>>, p |-> p, params |-> params] :
        x0 \in CallStates(self), p \in CallControls(self)}
MapArguments(self) ==
    UNION {{a \in [1..MapColumns -> Arguments(self, params)] :
               \A i, j \in 1..MapColumns : i # j => a[i] # a[j]} :
           params \in CallParams(self)}

\* integrator.map(...)(...) called: the invocations start
MapBegin ==
    /\ integrator # NoInstance
    /\ mapped = <<>>
    /\ IF integrator.function = NoFunction
       THEN /\ ret' = [op |-> "map", args |-> <<>>, done |-> TRUE, value |-> <<>>,
                       raised |-> [type |-> "AttributeError",
                                   msg |-> "'NoneType' object has no attribute 'map'"]]
            /\ mapped' = mapped
       ELSE \E a \in MapArguments(integrator) :
               /\ ret' = [op |-> "map", args |-> Tuple(a), done |-> FALSE, value |-> <<>>,
                          raised |-> NoError]
               /\ mapped' = Tuple([i \in 1..MapColumns |-> Invocation(a[i])])
    /\ integrator' = self_after(integrator)
    /\ UNCHANGED ocp

\* a thread advances its invocation by one step
MapStep ==
    /\ mapped # <<>>
    /\ \E i \in 1..Len(mapped) :
          /\ ~mapped[i].done
          /\ mapped' = [mapped EXCEPT
                          ![i] = Advance(integrator.function.self, mapped, i,
                                         Trajectory(mapped, i))]
    /\ UNCHANGED <<integrator, ret, ocp>>

\* every invocation has returned: the mapped evaluation returns their outputs
MapEnd ==
    /\ mapped # <<>>
    /\ \A i \in 1..Len(mapped) : mapped[i].done
    /\ ret' = [ret EXCEPT !.done = TRUE,
                          !.value = Tuple([i \in 1..Len(mapped) |-> mapped[i].value])]
    /\ mapped' = <<>>
    /\ UNCHANGED <<integrator, ocp>>

\* The instances a mapped evaluation is drawn on, as their construction leaves
\* them: an explicit and the implicit integrator, and the base class.
MapDrawn ==
    {<<"RK4", MixedModel, "CONSTANT", "scale", n, 1>> : n \in 1..MaxSteps}
    \cup {<<"RK4", NoQuatModel, "LINEAR_CONTINUOUS", "control", n, 1>> : n \in 1..MaxSteps}
    \cup {<<"IRK", MixedModel, "CONSTANT", "scale", 1, d>> : d \in 1..MaxDegree}
    \cup {<<"Integrator", NoQuatModel, "CONSTANT", "zero", 1, 1>>}

MapInit ==
    /\ \E d \in MapDrawn, t_span \in TSpans :
          /\ integrator = New(d[1], Ode(d[2], d[3], d[4]),
                              OdeOpt(d[2], t_span, d[3], d[5], d[6])).value
          /\ ret = [op |-> "__init__", cls |-> d[1],
                    ode_opt |-> OdeOpt(d[2], t_span, d[3], d[5], d[6]), raised |-> NoError]
    /\ mapped = <<>>
    /\ ocp = NoOcp

MapNext == Call \/ MapBegin \/ MapStep \/ MapEnd

MapSpec == MapInit /\ [][MapNext]_vars

\* =============================================== OptimalControlProgram
\* Python values of the arguments checked by type: a number with its type, or
\* a list or a tuple of them.
PyInt(v) == [type |-> "int", v |-> v]
PyBool(v) == [type |-> "bool", v |-> v]
PyFloat(v) == [type |-> "float", v |-> v]              \* the float equal to the integer v
PyList(type, items) == [type |-> type, v |-> items]    \* type "list" or "tuple"
\* isinstance(x, int): bool is a subclass of int
isinstance_int(x) == x.type \in {"int", "bool"}
isinstance_bool(x) == x.type = "bool"
isinstance_tuple_list(x) == x.type \in {"tuple", "list"}
\* the number a comparison reads: True is 1 and False is 0
Number(x) == IF x.type = "bool" THEN (IF x.v THEN 1 ELSE 0) ELSE x.v

\* lines 233-234
n_threads_rejected(n_threads) ==
    ~isinstance_int(n_threads) \/ isinstance_bool(n_threads) \/ Number(n_threads) < 1

\* lines 236-242: whether the check of n_shooting raises
n_shooting_rejected(ns) ==
    IF ~isinstance_int(ns) \/ Number(ns) < 2
    THEN IF isinstance_tuple_list(ns)
         THEN Cardinality({i \in 1..Len(ns.v) :
                              ~isinstance_int(ns.v[i]) /\ ~isinstance_bool(ns.v[i])}) # 0
         ELSE TRUE
    ELSE FALSE

\* lines 244-249: whether the check of phase_time raises
phase_time_rejected(phase_time) ==
    IF phase_time.type \notin {"int", "bool", "float"}
    THEN IF isinstance_tuple_list(phase_time)
         THEN Cardinality({i \in 1..Len(phase_time.v) :
                              phase_time.v[i].type \notin {"int", "bool", "float"}}) # 0
         ELSE TRUE
    ELSE FALSE

\* a dict with no key
EmptyDict == [key \in {} |-> <<>>]

\* line 337: NLP(), a phase with no plot yet
NLP == [ns |-> <<>>, tf |-> <<>>, plot |-> EmptyDict]

\* NLP.add(ocp, "ns", n_shooting, False), line 342: the phase i receives
\* element i of a list, and the number itself otherwise
NLP_add_ns(nlp, n_shooting) ==
    Tuple([i \in 1..Len(nlp) |->
             [nlp[i] EXCEPT !.ns = IF isinstance_tuple_list(n_shooting)
                                   THEN n_shooting.v[i] ELSE n_shooting]])

\* ------------------------------------------------------------ _define_time
\* None, and math.inf
None == [type |-> "NoneType", v |-> 0]
inf == [type |-> "inf", v |-> 0]
\* the truth value of a number or None
Truthy(x) == x.type # "NoneType" /\ (x.type = "inf" \/ Number(x) # 0)

\* a dict as the set of its items <<key, value>>
Has(dict, key) == \E item \in dict : item[1] = key
Get(dict, key) == (CHOOSE item \in dict : item[1] = key)[2]

\* Objective(type, **params) and Constraint(type, min_bound=..., max_bound=...)
Objective(type, params) ==
    [type |-> type, params |-> params, min_bound |-> None, max_bound |-> None]
Constraint(type, min_bound, max_bound) ==
    [type |-> type, params |-> {}, min_bound |-> min_bound, max_bound |-> max_bound]

\* lines 836-840: the types that optimize the time of a phase
TimeTypes == {"Mayer.MINIMIZE_TIME", "Lagrange.MINIMIZE_TIME", "TIME_CONSTRAINT"}
\* line 847: pen_fun.type.get_type() == ConstraintFunction
IsConstraintFunction(pen_fun) == pen_fun.type = "TIME_CONSTRAINT"

\* ocp.cx.sym(f"time_phase_{i}", 1, 1), i counted from 0
time_phase(i) == [type |-> "sym", v |-> i]

\* lines 847-852: the bounds a time penalty declares
declared_min(pen_fun) ==
    IF IsConstraintFunction(pen_fun)
    THEN IF Truthy(pen_fun.min_bound) THEN pen_fun.min_bound ELSE PyInt(0)
    ELSE IF Has(pen_fun.params, "min_bound") THEN Get(pen_fun.params, "min_bound")
         ELSE PyInt(0)
declared_max(pen_fun) ==
    IF IsConstraintFunction(pen_fun)
    THEN IF Truthy(pen_fun.max_bound) THEN pen_fun.max_bound ELSE inf
    ELSE IF Has(pen_fun.params, "max_bound") THEN Get(pen_fun.params, "max_bound")
         ELSE inf

\* lines 843-852 on the lists of the scan, for a time penalty of phase i (from 1)
found_time(scan, i, pen_fun) ==
    [has_penalty |-> [scan.has_penalty EXCEPT ![i] = TRUE],
     initial_time_guess |-> Append(scan.initial_time_guess, scan.phase_time[i]),
     phase_time |-> [scan.phase_time EXCEPT ![i] = time_phase(i - 1)],
     time_min |-> Append(scan.time_min, declared_min(pen_fun)),
     time_max |-> Append(scan.time_max, declared_max(pen_fun))]

\* lines 832-853: the loops from the penalty k of phase i on (both from 1)
RECURSIVE define_parameters_phase_time(_, _, _, _)
define_parameters_phase_time(penalty_functions, scan, i, k) ==
    IF i > Len(penalty_functions) THEN Ok(scan)
    ELSE IF k > Len(penalty_functions[i])
    THEN define_parameters_phase_time(penalty_functions, scan, i + 1, 1)
    ELSE IF penalty_functions[i][k].type \notin TimeTypes
    THEN define_parameters_phase_time(penalty_functions, scan, i, k + 1)
    ELSE IF scan.has_penalty[i]
    THEN Raise([type |-> "RuntimeError",
                msg |-> "Time constraint/objective cannot declare more than once"])
    ELSE define_parameters_phase_time(penalty_functions,
                                      found_time(scan, i, penalty_functions[i][k]), i, k + 1)

\* Variant: the scan of the constraints started with no penalty found.
has_penalty_forgotten(has_penalty) == [i \in DOMAIN has_penalty |-> FALSE]

\* lines 865-867: _has_penalty=has_penalty, what the scan of the objectives found
has_penalty_passed(has_penalty) == has_penalty

\* NLP.add(self, "tf", phase_time, False), line 872
NLP_add_tf(nlp, phase_time) ==
    Tuple([i \in 1..Len(nlp) |-> [nlp[i] EXCEPT !.tf = phase_time[i]]])

\* lines 877-886: the time parameters added to v, from phase j on (from 1);
\* i is the counter of line 877
RECURSIVE add_time_parameters(_, _, _, _, _)
add_time_parameters(nlp, scan, j, i, v) ==
    IF j > Len(nlp) THEN v
    ELSE IF nlp[j].tf.type = "sym"
    THEN add_time_parameters(nlp, scan, j + 1, i + 1,
             Append(v, [name |-> "time", cx |-> nlp[j].tf,
                        bounds |-> <<scan.time_min[i + 1], scan.time_max[i + 1]>>,
                        initial_guess |-> scan.initial_time_guess[i + 1]]))
    ELSE add_time_parameters(nlp, scan, j + 1, i, v)

\* lines 871-886 once the two scans are done
_define_time_add(nlp, scan) ==
    IF Raised(scan) THEN scan
    ELSE Ok([solver_type |-> "NONE", solver |-> None,      \* lines 349-350
             nlp |-> NLP_add_tf(nlp, scan.value.phase_time),
             v |-> add_time_parameters(NLP_add_tf(nlp, scan.value.phase_time),
                                       scan.value, 1, 0, <<>>)])

\* lines 865-867: the scan of the constraints after that of the objectives
_define_time_constraints(nlp, constraints, scan) ==
    IF Raised(scan) THEN scan
    ELSE _define_time_add(nlp,
             define_parameters_phase_time(
                 constraints,
                 [scan.value EXCEPT !.has_penalty = has_penalty_passed(@)], 1, 1))

\* OptimalControlProgram._define_time on the phases nlp
_define_time(nlp, phase_time, objective_functions, constraints) ==
    _define_time_constraints(nlp, constraints,
        define_parameters_phase_time(
            objective_functions,
            [has_penalty |-> [i \in 1..Len(nlp) |-> FALSE],
             initial_time_guess |-> <<>>,
             phase_time |-> IF isinstance_tuple_list(phase_time) THEN phase_time.v
                            ELSE <<phase_time>>,
             time_min |-> <<>>, time_max |-> <<>>], 1, 1))

\* lines 343-345, then line 371; the rest of the construction is that of a
\* program that builds
OptimalControlProgram_phases(nlp, phase_time, objective_functions, constraints) ==
    IF \E i \in 1..Len(nlp) : Number(nlp[i].ns) < 1
    THEN Raise([type |-> "RuntimeError",
                msg |-> "Number of shooting points must be at least 1"])
    ELSE _define_time(nlp, phase_time, objective_functions, constraints)

\* OptimalControlProgram.__init__ on a list of n_phases models: the checks of
\* n_threads, n_shooting and phase_time, then the phases and their times.  The
\* other arguments are those of a program that builds.
OptimalControlProgram__init__(n_phases, n_shooting, phase_time, n_threads, objective_functions, constraints) ==
    IF n_threads_rejected(n_threads)
    THEN Raise([type |-> "RuntimeError",
                msg |-> "n_threads should be a positive integer greater or equal than 1"])
    ELSE IF n_shooting_rejected(n_shooting)
    THEN Raise([type |-> "RuntimeError",
                msg |-> "n_shooting should be a positive integer (or a list of) greater or equal than 2"])
    ELSE IF phase_time_rejected(phase_time)
    THEN Raise([type |-> "RuntimeError",
                msg |-> "phase_time should be a number or a list of number"])
    ELSE OptimalControlProgram_phases(
             NLP_add_ns(Tuple([i \in 1..n_phases |-> NLP]), n_shooting),
             phase_time, objective_functions, constraints)

\* --------------------------------------------------------------- add_plot
\* d[key] = value on a dict
SetItem(d, key, value) == [k \in DOMAIN d \cup {key} |-> IF k = key THEN value ELSE d[k]]

\* CustomPlot(update_function, **parameters); combine_to is None (<<>>) until set
CustomPlot(update_function, parameters) ==
    [update_function |-> update_function, parameters |-> parameters, combine_to |-> <<>>]

\* f"{fig_name}_phase{phase}_{cmp}"
PhaseName(fig_name, phase, cmp) ==
    fig_name \o "_phase" \o ToString(phase) \o "_" \o ToString(cmp)

\* lines 604-609: the first name of the series that is not a key of the dict
RECURSIVE UniqueName(_, _, _, _)
UniqueName(fig_name, phase, plot, cmp) ==
    IF PhaseName(fig_name, phase, cmp) \notin DOMAIN plot
    THEN PhaseName(fig_name, phase, cmp)
    ELSE UniqueName(fig_name, phase, plot, cmp + 1)

\* lines 598-612: the key the plot is stored under
plot_name(fig_name, phase, plot) ==
    IF fig_name \in DOMAIN plot
    THEN IF fig_name # "" THEN UniqueName(fig_name, phase, plot, 0) ELSE "no_name"
    ELSE fig_name

\* lines 596-614 on the dict of the phase
add_to_phase(plot, fig_name, update_function, phase, parameters) ==
    SetItem(plot, plot_name(fig_name, phase, plot),
            IF fig_name \in DOMAIN plot
            THEN [CustomPlot(update_function, parameters) EXCEPT !.combine_to = <<fig_name>>]
            ELSE CustomPlot(update_function, parameters))

\* Variant: the check of the parameters is skipped.
combine_to_allowed(parameters) == FALSE

\* line 585: "combine_to" in parameters
combine_to_specified(parameters) == "combine_to" \in parameters

\* lines 590-595: the index of the phase, or the error
phase_index(nlp, phase) ==
    IF Len(nlp) = 1 THEN Ok(0)
    ELSE IF phase < 0
    THEN Raise([type |-> "RuntimeError",
                msg |-> "phase_idx must be specified for multiphase OCP"])
    ELSE IF phase >= Len(nlp)
    THEN Raise([type |-> "IndexError", msg |-> "list index out of range"])
    ELSE Ok(phase)

\* OptimalControlProgram.add_plot: the error raised, or the program after the call
add_plot(self, fig_name, update_function, phase, parameters) ==
    IF combine_to_specified(parameters)
    THEN Raise([type |-> "RuntimeError",
                msg |-> "'combine_to' cannot be specified in add_plot, please use same 'fig_name' to combine plots"])
    ELSE IF Raised(phase_index(self.nlp, phase))
    THEN phase_index(self.nlp, phase)
    ELSE Ok([self EXCEPT !.nlp[phase_index(self.nlp, phase).value + 1].plot =
                 add_to_phase(@, fig_name, update_function,
                              phase_index(self.nlp, phase).value, parameters)])

\* ------------------------------------------------------------------ inputs
MaxPhases == 2
MaxPlots == 3

\* the values tried for one number of shooting points
ShootingNumbers == {PyInt(0), PyInt(1), PyInt(2), PyBool(TRUE), PyFloat(2)}
\* the values tried inside a list
ShootingItems == {PyInt(1), PyInt(2), PyFloat(2)}

\* n_shooting for a program of n_phases phases: a number for one phase, or a list
\* or a tuple with one item per phase
NShootings(n_phases) ==
    (IF n_phases = 1 THEN ShootingNumbers ELSE {})
    \cup {PyList("list", Tuple(items)) : items \in [1..n_phases -> ShootingItems]}
    \cup {PyList("tuple", Tuple([i \in 1..n_phases |-> PyInt(2)]))}

\* phase_time for a program of n_phases phases: a number for one phase, or a
\* list with the time of each phase
PhaseTimes(n_phases) ==
    (IF n_phases = 1 THEN {PyFloat(1)} ELSE {})
    \cup {PyList("list", Tuple([i \in 1..n_phases |-> PyInt(i)]))}
Threads == {PyInt(0), PyInt(1)}
FigNames == {"", "a"}
UpdateFunctions == {"f", "g"}
Parameters == {{}, {"combine_to"}}

\* the number of plots of the program
RECURSIVE n_plots(_)
n_plots(nlp) ==
    IF nlp = <<>> THEN 0 ELSE Cardinality(DOMAIN nlp[1].plot) + n_plots(Tail(nlp))

\* ocp = OptimalControlProgram(biorbd_model, ..., n_shooting, phase_time, n_threads=n_threads)
NewOcp ==
    /\ ocp = NoOcp
    /\ \E n_phases \in 1..MaxPhases, n_threads \in Threads :
          \E n_shooting \in NShootings(n_phases), phase_time \in PhaseTimes(n_phases) :
             \E new \in {OptimalControlProgram__init__(n_phases, n_shooting,
                                                       phase_time, n_threads,
                                                       <<>>, <<>>)} :
                /\ ocp' = IF Raised(new) THEN NoOcp ELSE new.value
                /\ ret' = [op |-> "OptimalControlProgram", n_phases |-> n_phases,
                           n_shooting |-> n_shooting, phase_time |-> phase_time,
                           n_threads |-> n_threads, raised |-> new.raised]
    /\ UNCHANGED <<integrator, mapped>>

\* ocp.add_plot(fig_name, update_function, phase, **parameters)
AddPlot ==
    /\ ocp # NoOcp
    /\ n_plots(ocp.nlp) < MaxPlots
    /\ \E fig_name \in FigNames, update_function \in UpdateFunctions,
          phase \in -1..MaxPhases, parameters \in Parameters :
          \E out \in {add_plot(ocp, fig_name, update_function, phase, parameters)} :
             /\ ocp' = IF Raised(out) THEN ocp ELSE out.value
             /\ ret' = [op |-> "add_plot", fig_name |-> fig_name,
                        update_function |-> update_function, phase |-> phase,
                        parameters |-> parameters, raised |-> out.raised]
    /\ UNCHANGED <<integrator, mapped>>

OcpNext == NewOcp \/ AddPlot

OcpSpec == Init /\ [][OcpNext]_vars

\* ------------------------------------------------- the times of the phases
\* the objectives and the constraints declared on one phase
PhaseObjectives ==
    {<<>>,
     <<Objective("Mayer.MINIMIZE_TIME", {<<"min_bound", PyInt(1)>>, <<"max_bound", PyInt(3)>>})>>,
     <<Objective("Lagrange.MINIMIZE_TIME", {})>>,
     <<Objective("Lagrange.MINIMIZE_TORQUE", {}),
       Objective("Mayer.MINIMIZE_TIME", {<<"max_bound", PyInt(4)>>})>>,
     <<Objective("Mayer.MINIMIZE_TIME", {}), Objective("Lagrange.MINIMIZE_TIME", {})>>}
PhaseConstraints ==
    {<<>>,
     <<Constraint("TIME_CONSTRAINT", PyInt(2), PyInt(5))>>,
     <<Constraint("TRACK_STATE", None, None), Constraint("TIME_CONSTRAINT", None, None)>>,
     <<Constraint("TIME_CONSTRAINT", PyInt(0), PyInt(6)),
       Constraint("TIME_CONSTRAINT", PyInt(2), PyInt(5))>>}

\* ocp = OptimalControlProgram(..., objective_functions, constraints) with time
\* objectives and time constraints on its phases; n_shooting, phase_time and
\* n_threads are those of a program that builds
NewTimedOcp ==
    /\ ocp = NoOcp
    /\ ret.op = "none"
    /\ \E n_phases \in 1..MaxPhases :
          \E objective_functions \in [1..n_phases -> PhaseObjectives],
             constraints \in [1..n_phases -> PhaseConstraints] :
             \E n_shooting \in {PyList("list", Tuple([i \in 1..n_phases |-> PyInt(2)]))},
                phase_time \in {PyList("list", Tuple([i \in 1..n_phases |-> PyInt(i)]))},
                n_threads \in {PyInt(1)} :
                \E new \in {OptimalControlProgram__init__(
                                n_phases, n_shooting, phase_time, n_threads,
                                Tuple(objective_functions), Tuple(constraints))} :
                   /\ ocp' = IF Raised(new) THEN NoOcp ELSE new.value
                   /\ ret' = [op |-> "OptimalControlProgram", n_phases |-> n_phases,
                              n_shooting |-> n_shooting, phase_time |-> phase_time,
                              n_threads |-> n_threads,
                              objective_functions |-> Tuple(objective_functions),
                              constraints |-> Tuple(constraints),
                              raised |-> new.raised]
    /\ UNCHANGED <<integrator, mapped>>

TimeSpec == Init /\ [][NewTimedOcp]_vars

\* ------------------------------------------------- OptimalControlProgram.solve
\* the number of calls of solve on a program
MaxSolves == 3

\* a dict, as the set of its items, updated with the items of another
Update(dict, items) ==
    {item \in dict : ~Has(items, item[1])} \cup items

\* IpoptInterface(ocp), lines 57-67; id tells the instances apart
IpoptInterface(id) ==
    [kind |-> "IPOPT", id |-> id, options_common |-> {}, opts |-> {}]

\* AcadosInterface(ocp, **solver_options)
AcadosInterface(id, solver_options) ==
    [kind |-> "ACADOS", id |-> id, options_common |-> {}, opts |-> solver_options]

\* IpoptInterface.online_optim, lines 78-80
online_optim(self, platform) ==
    IF platform = "win32"
    THEN Raise([type |-> "RuntimeError",
                msg |-> "Online graphics are not available on Windows"])
    ELSE Ok([self EXCEPT !.options_common =
                 Update(@, {<<"iteration_callback", "OnlineCallback(ocp)">>})])

\* lines 97-103
default_options ==
    {<<"ipopt.tol", "1e-6">>, <<"ipopt.max_iter", "1000">>,
     <<"ipopt.hessian_approximation", "exact">>,
     <<"ipopt.limited_memory_max_history", "50">>, <<"ipopt.linear_solver", "mumps">>}

\* the keys an option may be given with that start with "ipopt."
Prefixed == {"ipopt.tol", "ipopt.max_iter"}
\* lines 105-107
ipopt_key(key) == IF key \in Prefixed THEN key ELSE "ipopt." \o key

\* IpoptInterface.configure, lines 91-109; solver_options is None or a dict
configure(self, solver_options) ==
    IF solver_options = None /\ self.opts # {} THEN self
    ELSE [self EXCEPT !.opts =
             Update(Update(default_options,
                           IF solver_options = None THEN {}
                           ELSE {<<ipopt_key(item[1]), item[2]>> : item \in solver_options.v}),
                    self.options_common)]

\* lines 671-685: the interface and the solver type the call selects, or the error
select_solver(self, solver, solver_options) ==
    IF solver = "IPOPT" /\ self.solver_type # "IPOPT"
    THEN Ok([self EXCEPT !.solver = IpoptInterface(self.n_interfaces + 1),
                         !.n_interfaces = @ + 1, !.solver_type = solver])
    ELSE IF solver = "ACADOS" /\ self.solver_type # "ACADOS"
    THEN Ok([self EXCEPT !.solver = AcadosInterface(self.n_interfaces + 1,
                                       IF solver_options = None THEN {} ELSE solver_options.v),
                         !.n_interfaces = @ + 1, !.solver_type = solver])
    ELSE IF self.solver_type = "NONE"
    THEN Raise([type |-> "RuntimeError", msg |-> "Solver not specified"])
    ELSE Ok([self EXCEPT !.solver_type = solver])

\* lines 690-693: configure, then the solver run on the options of the interface
configure_and_solve(self, solver_options) ==
    [ocp |-> [self EXCEPT !.solver = IF self.solver.kind = "IPOPT"
                                     THEN configure(self.solver, solver_options)
                                     ELSE self.solver],
     raised |-> NoError,
     ran |-> <<IF self.solver.kind = "IPOPT" THEN configure(self.solver, solver_options)
               ELSE self.solver>>]

\* lines 687-688, then the rest
solve_selected(self, platform, show_online_optim, solver_options) ==
    IF show_online_optim
    THEN IF Raised(online_optim(self.solver, platform))
         THEN [ocp |-> self, raised |-> online_optim(self.solver, platform).raised,
               ran |-> <<>>]
         ELSE configure_and_solve(
                  [self EXCEPT !.solver = online_optim(self.solver, platform).value],
                  solver_options)
    ELSE configure_and_solve(self, solver_options)

\* OptimalControlProgram.solve: the program after the call, what it raised, and
\* the interface whose solver ran (none when it raised before)
solve(self, platform, solver, show_online_optim, solver_options) ==
    IF Raised(select_solver(self, solver, solver_options))
    THEN [ocp |-> self, raised |-> select_solver(self, solver, solver_options).raised,
          ran |-> <<>>]
    ELSE solve_selected(select_solver(self, solver, solver_options).value, platform,
                        show_online_optim, solver_options)

Solvers == {"NONE", "IPOPT", "ACADOS"}
Platforms == {"linux", "win32"}
SolverOptions ==
    {None, [type |-> "dict", v |-> {}],
     [type |-> "dict", v |-> {<<"max_iter", "5">>, <<"ipopt.tol", "1e-3">>}]}

\* a program of one phase as its construction leaves it, on a platform; the
\* counters n_interfaces and n_solves tell the interfaces and the calls apart
SolveInit ==
    /\ \E platform \in Platforms :
          ret = [op |-> "OptimalControlProgram", platform |-> platform, raised |-> NoError]
    /\ ocp = [n_interfaces |-> 0, n_solves |-> 0]
             @@ OptimalControlProgram__init__(1, PyInt(2), PyFloat(1), PyInt(1),
                                              <<>>, <<>>).value
    /\ integrator = NoInstance
    /\ mapped = <<>>

\* ocp.solve(solver, show_online_optim, solver_options)
Solve ==
    /\ ocp # NoOcp
    /\ ocp.n_solves < MaxSolves
    /\ \E solver \in Solvers, show_online_optim \in BOOLEAN,
          solver_options \in SolverOptions :
          /\ solver = "ACADOS" => ~show_online_optim
          /\ \E out \in {solve(ocp, ret.platform, solver, show_online_optim,
                               solver_options)} :
                /\ ocp' = [out.ocp EXCEPT !.n_solves = @ + 1]
                /\ ret' = [op |-> "solve", platform |-> ret.platform, solver |-> solver,
                           show_online_optim |-> show_online_optim,
                           solver_options |-> solver_options,
                           raised |-> out.raised, ran |-> out.ran]
    /\ UNCHANGED <<integrator, mapped>>

SolveSpec == SolveInit /\ [][Solve]_vars

\* ------------------------------------------------ the collocation of IRK.dxdt
\* Lines 482-535 of IRK.dxdt are loops over the time points and the states of
\* one finite element.  The Legendre points of a degree above 1 are irrational,
\* so the loops are also run on rational points: the multiples of 1/degree and
\* the middles of the degree equal parts of [0, 1] (the Legendre point for
\* degree 1).
TimePoints(degree) ==
    {<<Zero>> \o collocation_points(degree).value,
     <<Zero>> \o Tuple([j \in 1..degree |-> Rat(j, degree)]),
     <<Zero>> \o Tuple([j \in 1..degree |-> Rat(2 * j - 1, 2 * degree)])}

\* the states of the interior points the residuals are evaluated at
InteriorStates(self) ==
    {Tuple(points) : points \in [1..self.degree -> States(self.model)]}

\* vfcn(x_irk_points, x0, u, params): the residuals of lines 507-518 at interior
\* states, as the rootfinder evaluates them
Vfcn ==
    /\ integrator # NoInstance
    /\ integrator.cls = "IRK"
    /\ ret.op = "__init__"          \* the functions are pure: one application each
    /\ \E x0 \in CallStates(integrator), u \in CallControls(integrator),
          params \in CallParams(integrator), points \in InteriorStates(integrator),
          time_points \in TimePoints(integrator.degree) :
          \E p \in {<<VMul(params[1], integrator.param_scaling[1])>>} :
             \E out \in {CollocationEquations(integrator, integrator.h,
                                              Collocation(time_points),
                                              <<x0>> \o points, u, p, <<>>, 1)} :
                ret' = [op |-> "vfcn", time_points |-> time_points,
                        x |-> <<x0>> \o points, u |-> u, p |-> p,
                        t |-> Tuple([j \in 1..integrator.degree |->
                                       t_norm_init(integrator, j)]),
                        raised |-> out.raised, value |-> out.value]
    /\ UNCHANGED <<integrator, mapped, ocp>>

\* lines 531-537: the state at the end of the finite element from x0 and the
\* interior states the rootfinder returned
Xf ==
    /\ integrator # NoInstance
    /\ integrator.cls = "IRK"
    /\ ret.op = "__init__"          \* the functions are pure: one application each
    /\ \E x0 \in CallStates(integrator), points \in InteriorStates(integrator),
          time_points \in TimePoints(integrator.degree) :
          \E out \in {IRK_xf(Continuity(time_points), x0, <<x0>> \o points)} :
             ret' = [op |-> "xf", time_points |-> time_points, x |-> <<x0>> \o points,
                     raised |-> out.raised, value |-> out.value]
    /\ UNCHANGED <<integrator, mapped, ocp>>

\* the implicit integrators the loops are run on, as their construction
\* leaves them
IrkInit ==
    /\ \E model \in {NoQuatModel, MixedModel}, ode_fun \in {"zero", "scale", "control"},
          degree \in 1..MaxDegree, t_span \in TSpans :
          /\ Drawn("IRK", model, ode_fun)
          /\ integrator = New("IRK", Ode(model, "CONSTANT", ode_fun),
                              OdeOpt(model, t_span, "CONSTANT", 1, degree)).value
          /\ ret = [op |-> "__init__", cls |-> "IRK",
                    ode_opt |-> OdeOpt(model, t_span, "CONSTANT", 1, degree),
                    raised |-> NoError]
    /\ mapped = <<>>
    /\ ocp = NoOcp

IrkNext == Vfcn \/ Xf

IrkSpec == IrkInit /\ [][IrkNext]_vars

\* ================================================================ properties
\* the last operation evaluated the integration numerically and returned
Evaluated == ret.op \in {"__call__", "dxdt"} /\ ret.raised = NoError
\* the last operation was a construction, of class cls
Constructing(cls) == ret.op = "__init__" /\ ret.cls = cls
\* the parameters dxdt received in the last evaluation
ScaledParams == <<VMul(ret.params[1], integrator.param_scaling[1])>>
\* the 4-vector (w, x, y, z) of the quaternion of indices q in column x
Block(x, q) == <<x[q[4] + 1], x[q[1] + 1], x[q[2] + 1], x[q[3] + 1]>>
Representable(a) == Fl(a) = a
ControlTypeMessages ==
    {"ControlType not implemented yet", "ControlType not implemented yet with IRK"}

\* C1: with no quaternion and a derivative identically zero, RK4 and RK8
\* return the input state: xf and every column of xall equal x0, for every
\* step size and every number of sub-steps drawn.
C1_ZeroDynamicsIdentity ==
    (/\ Evaluated
     /\ integrator.cls \in {"RK4", "RK8"}
     /\ nbQuat(integrator.model) = 0
     /\ integrator.fun = "zero")
    => /\ ret.value.xf = ret.x0
       /\ Len(ret.value.xall) = integrator.n_step + 1
       /\ \A i \in 1..Len(ret.value.xall) : ret.value.xall[i] = ret.x0[1]

C1_Witness ==
    /\ Evaluated
    /\ ret.op = "__call__"
    /\ integrator.cls = "RK8"
    /\ nbQuat(integrator.model) = 0
    /\ integrator.fun = "zero"
    /\ integrator.n_step >= 2
    /\ ret.x0[1][1] # Zero
    /\ ret.value.xf = ret.x0

\* C2 as stated: after an evaluation of RK4 or RK8, every quaternion of every
\* column 1..n_step of the trajectory has norm 1, whatever the input.
C2_UnitNorm ==
    (Evaluated /\ integrator.cls \in {"RK4", "RK8"})
    => \A i \in 2..Len(ret.value.xall), j \in 1..nbQuat(integrator.model) :
          norm_fro(Block(ret.value.xall[i], QuatIdx(integrator.model)[j])) = One

\* the 4-vector of quaternion j that sub-step i computes, before its normalization
Stepped(i, j) ==
    Block(next_x(integrator, integrator.h, Rat(i - 1, integrator.n_step),
                 ret.value.xall[i], ret.p, ScaledParams).value,
          QuatIdx(integrator.model)[j])

\* whether the quaternion of column i + 1 is the normalization of b: of norm 1
\* when b is finite and not zero, NaN in its four entries otherwise
NormalizedFrom(b, i, j) ==
    IF (\A c \in 1..4 : Finite(b[c])) /\ (\E c \in 1..4 : b[c] # Zero)
    THEN norm_fro(Block(ret.value.xall[i + 1], QuatIdx(integrator.model)[j])) = One
    ELSE \A c \in 1..4 :
            IsNaN(Block(ret.value.xall[i + 1], QuatIdx(integrator.model)[j])[c])

\* C2 amended: after an evaluation of RK4 or RK8, a quaternion of a column
\* 1..n_step has norm 1 when the 4-vector its sub-step computed is finite and
\* not zero; the normalization of a zero 4-vector is 0/0, NaN in every entry.
C2_UnitNormUnlessZero ==
    (Evaluated /\ integrator.cls \in {"RK4", "RK8"})
    => \A i \in 1..integrator.n_step, j \in 1..nbQuat(integrator.model) :
          NormalizedFrom(Stepped(i, j), i, j)

C2_Witness ==
    /\ Evaluated
    /\ integrator.cls = "RK4"
    /\ integrator.fun = "scale"
    /\ integrator.n_step >= 2
    /\ nbQuat(integrator.model) = 2
    /\ norm_fro(Block(ret.x0[1], QuatIdx(integrator.model)[1])) = Num(5)
    /\ \A i \in 2..Len(ret.value.xall) :
          norm_fro(Block(ret.value.xall[i], QuatIdx(integrator.model)[1])) = One

\* C3 as stated: under LINEAR_CONTINUOUS get_u(u, 0) is column 0 of u,
\* get_u(u, 1) is column 1 of u, and get_u(u, t) is u0 + (u1 - u0) * t;
\* under CONSTANT get_u(u, t) is u.
C3_ExactInterpolation ==
    (ret.op = "get_u" /\ ret.raised = NoError)
    => /\ integrator.control_type = "CONSTANT" => ret.value = ret.u
       /\ integrator.control_type = "LINEAR_CONTINUOUS"
          => \A i \in 1..Len(ret.u[1]) :
                /\ ret.dt_norm = Zero => ret.value[1][i] = ret.u[1][i]
                /\ ret.dt_norm = One => ret.value[1][i] = ret.u[2][i]
                /\ ret.value[1][i] =
                      RAdd(ret.u[1][i], RMul(RSub(ret.u[2][i], ret.u[1][i]), ret.dt_norm))

\* C3 amended: under CONSTANT get_u(u, t) is u.  Under LINEAR_CONTINUOUS
\* get_u(u, 0) is column 0 of u; get_u(u, 1) is column 1 of u when the
\* difference u1 - u0 is computed without rounding; and get_u(u, t) is the
\* rounding of u0 + (u1 - u0) * t when u1 - u0 and (u1 - u0) * t are computed
\* without rounding.
C3_RoundedInterpolation ==
    (ret.op = "get_u" /\ ret.raised = NoError)
    => /\ integrator.control_type = "CONSTANT" => ret.value = ret.u
       /\ integrator.control_type = "LINEAR_CONTINUOUS"
          => \A i \in 1..Len(ret.u[1]) :
                /\ ret.dt_norm = Zero => ret.value[1][i] = ret.u[1][i]
                /\ (ret.dt_norm = One /\ Representable(RSub(ret.u[2][i], ret.u[1][i])))
                   => ret.value[1][i] = ret.u[2][i]
                /\ (/\ Representable(RSub(ret.u[2][i], ret.u[1][i]))
                    /\ Representable(RMul(RSub(ret.u[2][i], ret.u[1][i]), ret.dt_norm)))
                   => ret.value[1][i] =
                         Fl(RAdd(RMul(RSub(One, ret.dt_norm), ret.u[1][i]),
                                 RMul(ret.dt_norm, ret.u[2][i])))

C3_Witness ==
    /\ ret.op = "get_u"
    /\ ret.raised = NoError
    /\ integrator.control_type = "LINEAR_CONTINUOUS"
    /\ ret.dt_norm = One
    /\ ret.u = <<<<Num(1)>>, <<Num(3)>>>>
    /\ ret.value = <<<<Num(3)>>>>

\* C4: the construction of IRK with LINEAR_CONTINUOUS controls raises
\* NotImplementedError for every degree >= 1 drawn; no instance, hence no
\* compiled function, comes out of it.
C4_IRKLinearContinuous ==
    (/\ Constructing("IRK")
     /\ ret.ode_opt.control_type = "LINEAR_CONTINUOUS"
     /\ ret.ode_opt.irk_polynomial_interpolation_degree >= 1)
    => /\ ret.raised.type = "NotImplementedError"
       /\ integrator = NoInstance

C4_Witness ==
    /\ Constructing("IRK")
    /\ ret.ode_opt.control_type = "LINEAR_CONTINUOUS"
    /\ ret.ode_opt.irk_polynomial_interpolation_degree = 2
    /\ ret.raised.type = "NotImplementedError"

\* C5: the construction of RK4, RK8 or IRK (with a number of sub-steps or a
\* degree >= 1) with a control type other than CONSTANT and LINEAR_CONTINUOUS
\* raises get_u's RuntimeError (NotImplementedError, a subclass, for IRK) and
\* leaves no instance; an evaluation never raises it.
C5_UnsupportedControlType ==
    /\ (/\ ret.op = "__init__"
        /\ ret.cls \in {"RK4", "RK8", "IRK"}
        /\ ret.ode_opt.control_type \notin {"CONSTANT", "LINEAR_CONTINUOUS"}
        /\ ret.cls \in {"RK4", "RK8"} => ret.ode_opt.number_of_finite_elements >= 1
        /\ ret.cls = "IRK" => ret.ode_opt.irk_polynomial_interpolation_degree >= 1)
       => /\ IsRuntimeError(ret.raised)
          /\ ret.raised.msg \in ControlTypeMessages
          /\ integrator = NoInstance
    /\ ret.op = "__call__" => ret.raised.msg \notin ControlTypeMessages
    /\ (integrator # NoInstance /\ integrator.cls \in {"RK4", "RK8", "IRK"})
       => integrator.control_type \in {"CONSTANT", "LINEAR_CONTINUOUS"}

C5_Witness ==
    /\ Constructing("RK8")
    /\ ret.ode_opt.control_type = "NONE"
    /\ ret.ode_opt.number_of_finite_elements = 2
    /\ ret.raised = [type |-> "RuntimeError", msg |-> "ControlType not implemented yet"]
    /\ integrator = NoInstance

\* C6: an instance of RK4, RK8 or IRK has executed _finish_init once, and an
\* operation on the instance leaves its function as it is.
C6_BuiltOnce ==
    (integrator # NoInstance /\ integrator.cls \in {"RK4", "RK8", "IRK"})
    => integrator.n_finish_init = 1

\* C7: the construction of RK4 or RK8 with a number of sub-steps below 1, or of
\* IRK with a degree below 1, raises a configuration error (RuntimeError) and
\* leaves no instance.
C7_RangeRejected ==
    (/\ ret.op = "__init__"
     /\ \/ ret.cls \in {"RK4", "RK8"} /\ ret.ode_opt.number_of_finite_elements < 1
        \/ ret.cls = "IRK" /\ ret.ode_opt.irk_polynomial_interpolation_degree < 1)
    => /\ IsRuntimeError(ret.raised)
       /\ integrator = NoInstance

\* C8: the construction of Integrator or of RK raises a configuration error
\* (RuntimeError), and no call of an instance of them raises at evaluation.
C8_AbstractRejectedAtBuild ==
    /\ (ret.op = "__init__" /\ ret.cls \in {"Integrator", "RK"})
       => IsRuntimeError(ret.raised)
    /\ (ret.op = "__call__" /\ integrator.cls \in {"Integrator", "RK"})
       => ret.raised = NoError

\* C9: the compiled function of an instance has the inputs x0, p, params and
\* the outputs xf, xall; xf has one column; xall has n_step + 1 columns for
\* RK4 and RK8 and 2 for IRK, in the graph and in every evaluation.
C9_NamesAndShapes ==
    /\ (integrator # NoInstance /\ integrator.function # NoFunction)
       => /\ integrator.function.name_in = <<"x0", "p", "params">>
          /\ integrator.function.name_out = <<"xf", "xall">>
          /\ Len(integrator.function.xf) = 1
          /\ Len(integrator.function.xall) =
                IF integrator.cls = "IRK" THEN 2 ELSE integrator.n_step + 1
    /\ (ret.op = "__call__" /\ ret.raised = NoError)
       => /\ Len(ret.value.xf) = 1
          /\ Len(ret.value.xf[1]) = nx(integrator.model)
          /\ Len(ret.value.xall) =
                IF integrator.cls = "IRK" THEN 2 ELSE integrator.n_step + 1
          /\ \A i \in 1..Len(ret.value.xall) :
                Len(ret.value.xall[i]) = nx(integrator.model)

C9_Witness ==
    /\ ret.op = "__call__"
    /\ ret.raised = NoError
    /\ integrator.cls = "RK4"
    /\ integrator.n_step = 3
    /\ Len(ret.value.xall) = 4
    /\ Len(ret.value.xf) = 1

\* C10: column 0 of the trajectory an evaluation returns is the input state as
\* given, its quaternions not renormalized, and the last column is xf; so it is
\* of the graph with the symbolic state.
C10_TrajectoryEnds ==
    /\ Evaluated
       => /\ ret.value.xall[1] = ret.x0[1]
          /\ ret.value.xall[Len(ret.value.xall)] = ret.value.xf[1]
    /\ (integrator # NoInstance /\ integrator.function # NoFunction)
       => /\ integrator.function.xall[1] = integrator.x_sym[1]
          /\ integrator.function.xall[Len(integrator.function.xall)]
                = integrator.function.xf[1]

C10_Witness ==
    /\ Evaluated
    /\ ret.op = "__call__"
    /\ integrator.cls \in {"RK4", "RK8"}
    /\ nbQuat(integrator.model) = 1
    /\ norm_fro(Block(ret.x0[1], QuatIdx(integrator.model)[1])) = Num(5)
    /\ ret.value.xall[1] = ret.x0[1]
    /\ norm_fro(Block(ret.value.xf[1], QuatIdx(integrator.model)[1])) = One

\* the outputs a finished operation r returned, each with its inputs
Outputs(r) ==
    IF r.op = "__call__" /\ r.raised = NoError
    THEN {<<[x0 |-> r.x0, p |-> r.p, params |-> r.params], r.value>>}
    ELSE IF r.op = "map" /\ r.raised = NoError /\ r.done
    THEN {<<r.args[i], r.value[i]>> : i \in 1..Len(r.args)}
    ELSE {}
\* the output of the compiled function on the arguments a, evaluated alone
Alone(a) == Function__call__(integrator.function, a.x0, a.p, a.params)

\* C11: a step of __call__ or of a mapped evaluation leaves every attribute of
\* the instance as it was, the function with them, and returns for the inputs
\* of the operation before it the outputs that operation returned.
C11_CallsLeaveInstance ==
    [][/\ integrator' = integrator
       /\ \A a \in Outputs(ret), b \in Outputs(ret') : a[1] = b[1] => a[2] = b[2]]_vars

C11_Witness ==
    /\ ret.op = "map"
    /\ ret.done
    /\ ret.raised = NoError
    /\ integrator.cls = "RK4"
    /\ integrator.n_finish_init = 1
    /\ integrator.h = Rat(2, integrator.n_step)
    /\ integrator.h_norm = Rat(1, integrator.n_step)
    /\ ret.value[1] = Alone(ret.args[1])

\* C12: under every interleaving of the steps of its invocations, a mapped
\* evaluation returns for every column of arguments the outputs the compiled
\* function returns for them when evaluated alone, and no step of an
\* invocation writes the instance.
C12_NoInterference ==
    /\ \A i \in 1..Len(mapped) :
          mapped[i].done
          => mapped[i].value = Alone([x0 |-> mapped[i].x0, p |-> mapped[i].p,
                                      params |-> mapped[i].params])
    /\ \A o \in Outputs(ret) : o[2] = Alone(o[1])

C12_Witness ==
    /\ Len(mapped) = 2
    /\ mapped[1].done
    /\ ~mapped[2].done
    /\ Len(mapped[2].x) = 2
    /\ integrator.cls = "RK4"
    /\ integrator.n_step >= 2
    /\ mapped[1].x0 # mapped[2].x0
    /\ mapped[1].value.xf # <<mapped[1].x0[1]>>

\* the interior state the rootfinder of IRK solves for with one collocation
\* point, on the inputs of the last evaluation
InteriorState ==
    Rootfinder(integrator, integrator.h, Collocation(<<Zero, Rat(1, 2)>>), ret.x0[1],
               ret.p, ScaledParams, Len(ret.x0[1]))[1]
\* the derivative at the state x under the inputs of the last evaluation
Derivative(x) == f(integrator, x, get_u(integrator, ret.p, Zero).value, ScaledParams)

\* C14: IRK of degree 1 is the implicit midpoint rule: its time points are 0
\* and 1/2, its interior state solves x1 = x0 + (h/2) f(x1), its output is
\* xf = x0 + h f(x1), and for dx/dt = -a x it is xf = x0 (2 - a h) / (2 + a h).
C14_ImplicitMidpoint ==
    (Evaluated /\ integrator.cls = "IRK" /\ integrator.degree = 1)
    => /\ <<Zero>> \o collocation_points(integrator.degree).value = <<Zero, Rat(1, 2)>>
       /\ InteriorState = VAdd(ret.x0[1], VScale(RDiv(integrator.h, Num(2)),
                                                 Derivative(InteriorState)))
       /\ ret.value.xf[1] = VAdd(ret.x0[1], VScale(integrator.h, Derivative(InteriorState)))
       /\ ret.value.xall = <<ret.x0[1], ret.value.xf[1]>>
       /\ integrator.fun = "scale"
          => \A i \in 1..Len(ret.x0[1]) :
                ret.value.xf[1][i] =
                   RMul(ret.x0[1][i],
                        RDiv(RAdd(Num(2), RMul(ScaledParams[1][1], integrator.h)),
                             RSub(Num(2), RMul(ScaledParams[1][1], integrator.h))))

C14_Witness ==
    /\ Evaluated
    /\ ret.op = "__call__"
    /\ integrator.cls = "IRK"
    /\ integrator.degree = 1
    /\ integrator.fun = "scale"
    /\ RMul(ScaledParams[1][1], integrator.h) = Num(-1)
    /\ ret.x0[1][1] = Num(3)
    /\ ret.value.xf[1][1] = One

RECURSIVE Factorial(_)
Factorial(k) == IF k = 0 THEN 1 ELSE k * Factorial(k - 1)
RECURSIVE RPow(_, _)
RPow(a, k) == IF k = 0 THEN One ELSE RMul(a, RPow(a, k - 1))
\* the order the documentation gives the method of a class
Order(cls) == IF cls = "RK8" THEN 8 ELSE 4

\* C15: the global error of RK4 on dx/dt = -x is proportional to h^4 and that
\* of RK8 to h^8: the sub-steps of a method of order q agree with the solution
\* in every power of h up to h^q.  The powers are read on the chain
\* dx[0]/dt = 0, dx[k]/dt = p x[k-1] from (1, 0, ..., 0), whose component k after
\* n sub-steps is the term in h^k of the n sub-steps of dx/dt = p x from 1, and
\* whose solution is (n h p)^k / k!.
C15_ConvergenceOrder ==
    (/\ Evaluated
     /\ integrator.cls \in {"RK4", "RK8"}
     /\ integrator.fun = "chain")
    => \A k \in 0..Len(ret.x0[1]) - 1 :
          k <= Order(integrator.cls)
          => ret.value.xf[1][k + 1] =
                RDiv(RPow(RMul(Num(integrator.n_step),
                               RMul(integrator.h, ScaledParams[1][1])), k),
                     Num(Factorial(k)))

\* C16: add_plot called with a 'combine_to' keyword parameter raises
\* RuntimeError and leaves the plot dictionary of every phase as it was before
\* the call.
C16_CombineToRejected ==
    [][(/\ ret'.op = "add_plot"
        /\ "combine_to" \in ret'.parameters)
       => /\ ret'.raised.type = "RuntimeError"
          /\ \A i \in 1..Len(ocp.nlp) : ocp'.nlp[i].plot = ocp.nlp[i].plot
          /\ Len(ocp'.nlp) = Len(ocp.nlp)]_vars

C16_Witness ==
    /\ ret.op = "add_plot"
    /\ "combine_to" \in ret.parameters
    /\ ret.raised.type = "RuntimeError"
    /\ n_plots(ocp.nlp) = 2

\* C17: every successful add_plot adds exactly one new entry to the plot
\* dictionary of one phase and replaces no entry: under fig_name when the name
\* is new, under a fresh key and combined to fig_name when the name exists.
C17_OneNewEntry ==
    [][(/\ ret'.op = "add_plot"
        /\ ret'.raised = NoError)
       => /\ Len(ocp'.nlp) = Len(ocp.nlp)
          /\ \E i \in 1..Len(ocp.nlp) :
                /\ \A j \in 1..Len(ocp.nlp) : j # i => ocp'.nlp[j] = ocp.nlp[j]
                /\ Cardinality(DOMAIN ocp'.nlp[i].plot)
                      = Cardinality(DOMAIN ocp.nlp[i].plot) + 1
                /\ \A key \in DOMAIN ocp.nlp[i].plot :
                      /\ key \in DOMAIN ocp'.nlp[i].plot
                      /\ ocp'.nlp[i].plot[key] = ocp.nlp[i].plot[key]
                /\ \A key \in DOMAIN ocp'.nlp[i].plot \ DOMAIN ocp.nlp[i].plot :
                      IF ret'.fig_name \in DOMAIN ocp.nlp[i].plot
                      THEN ocp'.nlp[i].plot[key].combine_to = <<ret'.fig_name>>
                      ELSE /\ key = ret'.fig_name
                           /\ ocp'.nlp[i].plot[key].combine_to = <<>>]_vars

\* C18: the construction of an OptimalControlProgram raises RuntimeError unless
\* n_shooting is an integer greater or equal than 2, or a list or a tuple of
\* integers greater or equal than 2.
C18_NShootingChecked ==
    (/\ ret.op = "OptimalControlProgram"
     /\ ~ IF ret.n_shooting.type \in {"list", "tuple"}
          THEN \A i \in 1..Len(ret.n_shooting.v) :
                  /\ ret.n_shooting.v[i].type = "int"
                  /\ ret.n_shooting.v[i].v >= 2
          ELSE /\ ret.n_shooting.type = "int"
               /\ ret.n_shooting.v >= 2)
    => ret.raised.type = "RuntimeError"

\* C19: one RK4 sub-step from the normalized time t evaluates the dynamics
\* exactly four times, at x, x + (h/2) k1, x + (h/2) k2 and x + h k3 with the
\* control sampled at t, t + h_norm/2, t + h_norm/2 and t + h_norm, and
\* returns x + (h/6)(k1 + 2 k2 + 2 k3 + k4).
C19_RK4SubStep ==
    (/\ ret.op = "next_x"
     /\ integrator.cls = "RK4"
     /\ ret.raised = NoError)
    => LET x == ret.x_prev
           h == ret.h
           half == RDiv(integrator.h_norm, Num(2))
           dynamics(state, time) ==
               f(integrator, state, get_u(integrator, ret.u, time).value, ret.p)
           k1 == dynamics(x, ret.t)
           k2 == dynamics(VAdd(x, VScale(RDiv(h, Num(2)), k1)), RAdd(ret.t, half))
           k3 == dynamics(VAdd(x, VScale(RDiv(h, Num(2)), k2)), RAdd(ret.t, half))
           k4 == dynamics(VAdd(x, VScale(h, k3)), RAdd(ret.t, integrator.h_norm))
       IN  /\ ret.k = <<k1, k2, k3, k4>>
           /\ ret.value =
                 VAdd(x, VScale(RDiv(h, Num(6)),
                                VAdd(k1, VAdd(VScale(Num(2), k2),
                                              VAdd(VScale(Num(2), k3), k4)))))

C19_Witness ==
    /\ ret.op = "next_x"
    /\ integrator.cls = "RK4"
    /\ ret.raised = NoError
    /\ integrator.control_type = "LINEAR_CONTINUOUS"
    /\ integrator.fun = "control"
    /\ ret.t # Zero
    /\ Len(ret.k) = 4
    /\ ret.k[1] # ret.k[2]
    /\ ret.k[3] # ret.k[4]

\* C20: one RK8 sub-step evaluates the dynamics exactly 10 times in sequence,
\* each stage from the earlier stages only, and returns the state combined
\* with the stages 1, 4, 5, 6, 7, 9 and 10 only, with the weights 41, 27, 272,
\* 27, 216, 216 and 41 over 840, which sum to 1.
C20_RK8SubStep ==
    (/\ ret.op = "next_x"
     /\ integrator.cls = "RK8"
     /\ ret.raised = NoError)
    => /\ Len(ret.k) = 10
       /\ \A j \in 1..10 :
             ret.k[j] = RK8_k(integrator, ret.h, ret.t, ret.x_prev, ret.u, ret.p,
                              SubSeq(ret.k, 1, j - 1))
       /\ ret.value =
             VAdd(ret.x_prev,
                  VAdd(VScale(RMul(ret.h, Rat(41, 840)), ret.k[1]),
                  VAdd(VScale(RMul(ret.h, Rat(27, 840)), ret.k[4]),
                  VAdd(VScale(RMul(ret.h, Rat(272, 840)), ret.k[5]),
                  VAdd(VScale(RMul(ret.h, Rat(27, 840)), ret.k[6]),
                  VAdd(VScale(RMul(ret.h, Rat(216, 840)), ret.k[7]),
                  VAdd(VScale(RMul(ret.h, Rat(216, 840)), ret.k[9]),
                       VScale(RMul(ret.h, Rat(41, 840)), ret.k[10]))))))))
       /\ 41 + 27 + 272 + 27 + 216 + 216 + 41 = 840

C20_Witness ==
    /\ ret.op = "next_x"
    /\ integrator.cls = "RK8"
    /\ ret.raised = NoError
    /\ Len(ret.k) = 10
    /\ ret.k[8] # ret.k[9]
    /\ ret.k[2] # ret.k[3]
    /\ ret.value # ret.x_prev

\* C21: in a sub-step of RK8, for every stage 2..10 the coefficients of the
\* earlier stages in the state of the stage sum to the fraction of the sub-step
\* at which the stage samples the control (4/27, 2/9, 1/3, 1/2, 2/3, 1/6, 1,
\* 5/6, 1): where the derivative is a constant c, the state of the stage is
\* x + h * fraction * c and its time t + h_norm * fraction.
C21_StageInstant ==
    (/\ ret.op = "next_x"
     /\ integrator.cls = "RK8"
     /\ ret.raised = NoError
     /\ \A j \in 1..Len(ret.k) : ret.k[j] = ret.k[1])
    => LET fraction == <<Zero, Rat(4, 27), Rat(2, 9), Rat(1, 3), Rat(1, 2), Rat(2, 3),
                         Rat(1, 6), One, Rat(5, 6), One>>
       IN  \A j \in 2..10 :
              /\ ret.calls[j].t = RAdd(ret.t, RMul(integrator.h_norm, fraction[j]))
              /\ ret.calls[j].x =
                    VAdd(ret.x_prev, VScale(RMul(ret.h, fraction[j]), ret.k[1]))

\* C22: in an explicit finite element the sub-steps run in order: the sub-step
\* i = 1..n_step starts at the normalized time (i - 1) / n_step, reads the
\* column i - 1 and writes the column i alone, whose quaternions are each
\* divided by their norm when the sub-step i + 1 reads it and whose other rows
\* are those next_x returned; the evaluation returns after exactly n_step
\* sub-steps, with the columns as they were written.
C22_SubStepsInOrder ==
    [][\A c \in 1..Len(mapped) :
          (/\ Len(mapped') = Len(mapped)
           /\ mapped'[c] # mapped[c]
           /\ integrator.cls = "RK4")
          => LET self == integrator.function.self
                 x == mapped[c].x
                 i == Len(mapped[c].x)
                 quat_idx == QuatIdx(self.model)
                 rows == UNION {{quat_idx[j][q] + 1 : q \in 1..4} : j \in 1..Len(quat_idx)}
                 raw == next_x(self, self.h, Rat(i - 1, self.n_step), x[i], mapped[c].p,
                               <<VMul(mapped[c].params[1], self.param_scaling[1])>>).value
             IN  IF mapped'[c].done
                 THEN /\ i = self.n_step + 1
                      /\ mapped'[c].x = x
                      /\ mapped'[c].value.xall = x
                      /\ mapped'[c].value.xf = <<x[i]>>
                 ELSE /\ i <= self.n_step
                      /\ Len(mapped'[c].x) = i + 1
                      /\ SubSeq(mapped'[c].x, 1, i) = x
                      /\ \A r \in 1..Len(raw) \ rows : mapped'[c].x[i + 1][r] = raw[r]
                      /\ \A j \in 1..Len(quat_idx) :
                            Block(mapped'[c].x[i + 1], quat_idx[j])
                               = VDiv(Block(raw, quat_idx[j]),
                                      norm_fro(Block(raw, quat_idx[j])))]_vars

C22_Witness ==
    /\ integrator.cls = "RK4"
    /\ integrator.n_step = 3
    /\ nbQuat(integrator.model) > 0
    /\ \E c \in 1..Len(mapped) :
          /\ mapped[c].done
          /\ Len(mapped[c].x) = 4
          /\ mapped[c].x[3] # mapped[c].x[4]
    /\ \E c \in 1..Len(mapped) : ~mapped[c].done /\ Len(mapped[c].x) = 2

\* C23: in every sub-step of RK4 and RK8, for every n_step >= 1, the sub-step
\* starts at a normalized time in [0, 1) and every stage samples the control at
\* a normalized time in [0, 1]; the last stage of the last sub-step samples it
\* at exactly 1.
C23_TimesInUnitInterval ==
    (/\ ret.op = "next_x"
     /\ integrator.cls \in {"RK4", "RK8"}
     /\ ret.raised = NoError)
    => /\ RLe(Zero, ret.t) /\ RLt(ret.t, One)
       /\ Len(ret.calls) = IF integrator.cls = "RK4" THEN 4 ELSE 10
       /\ \A j \in 1..Len(ret.calls) :
             RLe(Zero, ret.calls[j].t) /\ RLe(ret.calls[j].t, One)
       /\ ret.t = Rat(integrator.n_step - 1, integrator.n_step)
          => ret.calls[Len(ret.calls)].t = One

C23_Witness ==
    /\ ret.op = "next_x"
    /\ integrator.cls = "RK8"
    /\ integrator.control_type = "LINEAR_CONTINUOUS"
    /\ integrator.n_step = 3
    /\ ret.raised = NoError
    /\ ret.t = Rat(2, 3)
    /\ ret.calls[10].t = One
    /\ ret.calls[9].t = Rat(17, 18)

\* C24: for a degree d >= 1 the implicit integrator has exactly d interior
\* states beside the input state x_0 and exactly d residual equations, one for
\* each point j = 1..d and none for the point 0; the equation j is
\* h f(x_j, u, p) - sum over r = 0..d of C[r, j] x_r, where C[r, j] is the
\* derivative of the Lagrange polynomial of the point r at the point j.
C24_CollocationResiduals ==
    (/\ ret.op = "vfcn"
     /\ ret.raised = NoError)
    => /\ integrator.degree >= 1
       /\ Len(ret.x) - 1 = integrator.degree
       /\ Len(ret.value) = integrator.degree
       /\ \A j \in 1..integrator.degree :
             \A i \in 1..Len(ret.x[1]) :
                ret.value[j][i] =
                   RSub(RMul(integrator.h, f(integrator, ret.x[j + 1], ret.u, ret.p)[i]),
                        SumSeq(Tuple([r \in 1..integrator.degree + 1 |->
                                  RMul(LagrangeTangent(ret.time_points, r - 1,
                                                       ret.time_points[j + 1]),
                                       ret.x[r][i])])))

C24_Witness ==
    /\ ret.op = "vfcn"
    /\ ret.raised = NoError
    /\ integrator.degree = 2
    /\ integrator.fun = "scale"
    /\ ret.time_points = <<Zero, Rat(1, 2), One>>
    /\ ret.x[1] # ret.x[2]
    /\ ret.x[2] # ret.x[3]
    /\ ret.value[1] # ret.value[2]
    /\ \A i \in 1..Len(ret.x[1]) : Finite(ret.value[2][i])

\* C25: for every degree d >= 1 the output state of the implicit integrator is
\* the sum over r = 0..d of D[r] x_r, x_0 the input state, x_1..x_d the interior
\* states and D[r] the Lagrange polynomial of the point r at 1, and nothing
\* else is added to it.
C25_ContinuitySum ==
    (/\ ret.op = "xf"
     /\ ret.raised = NoError)
    => /\ Len(ret.x) = integrator.degree + 1
       /\ \A i \in 1..Len(ret.x[1]) :
             ret.value.xf[1][i] =
                SumSeq(Tuple([r \in 1..integrator.degree + 1 |->
                          RMul(Lagrange(ret.time_points, r - 1, One), ret.x[r][i])]))
       /\ ret.value.xall = <<ret.x[1], ret.value.xf[1]>>

C25_Witness ==
    /\ ret.op = "xf"
    /\ ret.raised = NoError
    /\ integrator.degree = 2
    /\ ret.time_points = <<Zero, Rat(1, 4), Rat(3, 4)>>
    /\ ret.x[1] # ret.x[2]
    /\ ret.x[2] # ret.x[3]
    /\ \A i \in 1..Len(ret.x[1]) : Finite(ret.value.xf[1][i])
    /\ ret.value.xf[1] # ret.x[3]

\* C26: in the implicit integrator the control of the equation of the point j,
\* j = 1..d, is asked of get_u at the time of that collocation point.
C26_ControlAtCollocationTime ==
    (/\ ret.op = "vfcn"
     /\ ret.raised = NoError)
    => \A j \in 1..integrator.degree : ret.t[j] = ret.time_points[j + 1]

\* the time objectives and time constraints declared on the phase i (from 1)
TimePenalties(penalty_functions, i) ==
    {k \in 1..Len(penalty_functions[i]) : penalty_functions[i][k].type \in TimeTypes}
TimeDeclarations(i) ==
    Cardinality(TimePenalties(ret.objective_functions, i))
    + Cardinality(TimePenalties(ret.constraints, i))
TimedConstruction ==
    /\ ret.op = "OptimalControlProgram"
    /\ "objective_functions" \in DOMAIN ret

\* C27: at most one time optimisation (MINIMIZE_TIME objective of Mayer or of
\* Lagrange, or TIME_CONSTRAINT) is declared per phase, objectives and
\* constraints counted together: the construction raises RuntimeError when some
\* phase declares two, and builds the program when every phase declares at most
\* one, on however many phases.
C27_OneTimePenaltyPerPhase ==
    TimedConstruction
    => IF \E i \in 1..ret.n_phases : TimeDeclarations(i) >= 2
       THEN /\ ret.raised = [type |-> "RuntimeError",
                             msg |-> "Time constraint/objective cannot declare more than once"]
            /\ ocp = NoOcp
       ELSE /\ ret.raised = NoError
            /\ ocp # NoOcp

C27_Witness ==
    /\ TimedConstruction
    /\ ret.n_phases = 2
    /\ Cardinality(TimePenalties(ret.objective_functions, 2)) = 1
    /\ Cardinality(TimePenalties(ret.constraints, 2)) = 1
    /\ TimeDeclarations(1) = 1
    /\ ret.raised.type = "RuntimeError"

\* the one time objective or time constraint of a phase i that declares one
TimeDeclaration(i) ==
    IF TimePenalties(ret.objective_functions, i) # {}
    THEN ret.objective_functions[i][CHOOSE k \in TimePenalties(ret.objective_functions, i) : TRUE]
    ELSE ret.constraints[i][CHOOSE k \in TimePenalties(ret.constraints, i) : TRUE]

\* C28: for every phase whose duration is optimised, the time parameter added
\* to the optimisation vector for that phase carries the bounds and the initial
\* guess declared by the time objective or time constraint of that same phase.
C28_TimeParameterOfPhase ==
    (/\ TimedConstruction
     /\ ret.raised = NoError)
    => \A i \in 1..ret.n_phases :
          TimeDeclarations(i) = 1
          => \E j \in 1..Len(ocp.v) :
                /\ ocp.v[j].cx = time_phase(i - 1)
                /\ ocp.v[j].bounds = <<declared_min(TimeDeclaration(i)),
                                       declared_max(TimeDeclaration(i))>>
                /\ ocp.v[j].initial_guess = ret.phase_time.v[i]

\* C29: a call of solve that runs a solver runs the interface of the kind the
\* call names, which is the one the program holds, and leaves solver_type at
\* that kind; a call naming Solver.NONE runs no solver and raises 'Solver not
\* specified'; two consecutive calls naming the same solver run the same
\* interface instance.
C29_SolverOfTheCall ==
    [][ret'.op = "solve"
       => /\ ret'.ran # <<>>
             => /\ ret'.ran[1].kind = ret'.solver
                /\ ocp'.solver = ret'.ran[1]
                /\ ocp'.solver_type = ret'.solver
          /\ ret'.solver = "NONE"
             => /\ ret'.ran = <<>>
                /\ ret'.raised = [type |-> "RuntimeError", msg |-> "Solver not specified"]
          /\ (/\ ret.op = "solve"
              /\ ret.solver = ret'.solver
              /\ ret.ran # <<>>
              /\ ret'.ran # <<>>)
             => ret'.ran[1].id = ret.ran[1].id]_vars

\* C30: on a platform other than Windows, a call of solve with
\* show_online_optim that runs the Ipopt interface hands the solver a set of
\* options holding the online iteration callback.
C30_OnlineCallbackInOptions ==
    (/\ ret.op = "solve"
     /\ ret.show_online_optim
     /\ ret.platform # "win32"
     /\ ret.ran # <<>>
     /\ ret.ran[1].kind = "IPOPT")
    => Has(ret.ran[1].opts, "iteration_callback")
====
